---- MODULE Spec2Model ----
(***************************************************************************)
(* LogOps: tiered log resolution (cache -> search store -> file ->         *)
(* auto-generation), the field normalizer and the cache keys, modelled     *)
(* from app/views.py and services/elasticsearch_service.py.                *)
(*                                                                         *)
(* Text is a sequence of one-character strings, so that lower-casing,      *)
(* stripping and sanitizing are computed character by character.           *)
(***************************************************************************)
EXTENDS Integers, Sequences, FiniteSets, TLC

VARIABLES
    cache,   \* django cache: key -> entry, or NoEntry
    store,   \* documents held by the search store (logops-logs index)
    clock,   \* wall-clock time in seconds
    nreq,    \* number of requests handled so far
    req,     \* the request being answered (POST parameters as received)
    resp,    \* the response of that request
    calls,   \* the calls that request made, in order
    norm,    \* field normalizer under test: input, first and second result
    ai,      \* analysis engine: API key, request, response and calls made
    svc,     \* store adapter under test: the call, its result, requests sent
    files,   \* fallback log files: file name -> state of the file
    fn,      \* function under test: its name, arguments, result and calls
    threads  \* requests in flight on the shared cache, one per worker thread

vars == <<cache, store, clock, nreq, req, resp, calls, norm, ai, svc, files, fn, threads>>

----------------------------------------------------------------------------
(* Text helpers: Python str methods used by the views.                     *)

UpperChars == <<"A","B","C","D","E","F","G","H","I","J","K","L","M","N","O","P","Q","R","S","T","U","V","W","X","Y","Z">>

LowerChars == <<"a","b","c","d","e","f","g","h","i","j","k","l","m","n","o","p","q","r","s","t","u","v","w","x","y","z">>

Digits == {"0","1","2","3","4","5","6","7","8","9"}

Whitespace == {" ", "\t", "\n"}

\* Python's None
None == <<"<None>">>

\* truthiness of a str-or-None value: None and '' are falsy
truthy(v) == v # None /\ v # <<>>

\* all([...]) over str values
all_truthy(vs) == \A i \in 1..Len(vs) : truthy(vs[i])

lower_char(c) ==
    IF \E i \in 1..26 : UpperChars[i] = c
    THEN LowerChars[CHOOSE i \in 1..26 : UpperChars[i] = c]
    ELSE c

\* str.lower()
str_lower(s) == [i \in 1..Len(s) |-> lower_char(s[i])]

RECURSIVE lstrip(_)
lstrip(s) == IF s # <<>> /\ Head(s) \in Whitespace THEN lstrip(Tail(s)) ELSE s

RECURSIVE rstrip(_)
rstrip(s) ==
    IF s # <<>> /\ s[Len(s)] \in Whitespace
    THEN rstrip(SubSeq(s, 1, Len(s) - 1))
    ELSE s

\* the parameter used as received, without .strip()
strip_nothing(s) == s

\* str.strip()
strip(s) == rstrip(lstrip(s))

\* characters kept by the pattern [^a-zA-Z0-9_\-]
SafeChars ==
    {UpperChars[i] : i \in 1..26} \cup {LowerChars[i] : i \in 1..26}
        \cup Digits \cup {"_", "-"}

sanitize_filename(value) ==
    IF ~truthy(value)
    THEN <<"u","n","k","n","o","w","n">>
    ELSE [i \in 1..Len(value) |-> IF value[i] \in SafeChars THEN value[i] ELSE "_"]

----------------------------------------------------------------------------
(* Field normalizer.                                                       *)

\* dict.get(key, default) on a table of <<key, value>> pairs
dict_get(table, key, default) ==
    IF \E p \in table : p[1] = key
    THEN (CHOOSE p \in table : p[1] = key)[2]
    ELSE default

\* 'cluster1'..'cluster4' -> 'Cluster Prod AKS 1'..'Cluster Prod AKS 4'
cluster_mapping ==
    { <<<<"c","l","u","s","t","e","r","1">>,
        <<"C","l","u","s","t","e","r"," ","P","r","o","d"," ","A","K","S"," ","1">>>>,
      <<<<"c","l","u","s","t","e","r","2">>,
        <<"C","l","u","s","t","e","r"," ","P","r","o","d"," ","A","K","S"," ","2">>>>,
      <<<<"c","l","u","s","t","e","r","3">>,
        <<"C","l","u","s","t","e","r"," ","P","r","o","d"," ","A","K","S"," ","3">>>>,
      <<<<"c","l","u","s","t","e","r","4">>,
        <<"C","l","u","s","t","e","r"," ","P","r","o","d"," ","A","K","S"," ","4">>>> }

\* lower-cased bundle -> canonically cased bundle
bundle_mapping ==
    { <<<<"b","u","l","k","d","e","v","i","c","e","e","n","r","o","l","l","m","e","n","t">>,
        <<"B","u","l","k","d","e","v","i","c","e","e","n","r","o","l","l","m","e","n","t">>>>,
      <<<<"b","u","l","k","o","r","d","e","r","v","a","l","i","d","a","t","i","o","n">>,
        <<"B","u","l","k","o","r","d","e","r","v","a","l","i","d","a","t","i","o","n">>>>,
      <<<<"i","o","t","s","u","b","s","c","r","i","p","t","i","o","n">>,
        <<"I","O","T","S","u","b","s","c","r","i","p","t","i","o","n">>>>,
      <<<<"m","o","b","i","l","i","t","y","s","u","b","s","c","r","i","p","t","i","o","n">>,
        <<"M","o","b","i","l","i","t","y","S","u","b","s","c","r","i","p","t","i","o","n">>>>,
      <<<<"m","o","b","i","l","i","t","y","p","r","o","m","o","t","i","o","n","t","r","e","a","t","m","e","n","t","r","u","l","e","s">>,
        <<"M","o","b","i","l","i","t","y","P","r","o","m","o","t","i","o","n","T","r","e","a","t","m","e","n","t","R","u","l","e","s">>>>,
      <<<<"m","o","b","i","l","i","t","y","d","e","v","i","c","e","t","r","e","a","t","m","e","n","t","r","u","l","e","s">>,
        <<"M","o","b","i","l","i","t","y","D","e","v","i","c","e","T","r","e","a","t","m","e","n","t","R","u","l","e","s">>>>,
      <<<<"b","u","s","i","n","e","s","s","r","u","l","e","s">>,
        <<"B","u","s","i","n","e","s","s","R","u","l","e","s">>>>,
      <<<<"c","u","s","t","o","m","e","r","m","a","n","a","g","e","m","e","n","t">>,
        <<"C","u","s","t","o","m","e","r","M","a","n","a","g","e","m","e","n","t">>>>,
      <<<<"i","n","v","e","n","t","o","r","y","t","r","a","c","k","i","n","g">>,
        <<"I","n","v","e","n","t","o","r","y","T","r","a","c","k","i","n","g">>>>,
      <<<<"d","e","v","i","c","e","m","a","n","a","g","e","m","e","n","t">>,
        <<"D","e","v","i","c","e","M","a","n","a","g","e","m","e","n","t">>>>,
      <<<<"n","e","t","w","o","r","k","m","o","n","i","t","o","r","i","n","g">>,
        <<"N","e","t","w","o","r","k","M","o","n","i","t","o","r","i","n","g">>>> }

\* an unknown cluster is lower-cased instead of passed through
map_lowercasing_unknown_cluster(app, cluster, bundle, pod) ==
    LET mapped_cluster == dict_get(cluster_mapping, cluster, str_lower(cluster))
        mapped_bundle  == dict_get(bundle_mapping, str_lower(bundle), bundle)
        mapped_pod     == IF truthy(pod) THEN str_lower(pod) ELSE pod
    IN  <<app, mapped_cluster, mapped_bundle, mapped_pod>>

\* the bundle is looked up as spelled, without lower-casing it
map_without_bundle_lower(app, cluster, bundle, pod) ==
    LET mapped_cluster == dict_get(cluster_mapping, cluster, cluster)
        mapped_bundle  == dict_get(bundle_mapping, bundle, bundle)
        mapped_pod     == IF truthy(pod) THEN str_lower(pod) ELSE pod
    IN  <<app, mapped_cluster, mapped_bundle, mapped_pod>>

\* returns <<app, mapped_cluster, mapped_bundle, mapped_pod>>
map_frontend_to_elasticsearch_values(app, cluster, bundle, pod) ==
    LET mapped_cluster == dict_get(cluster_mapping, cluster, cluster)
        mapped_bundle  == dict_get(bundle_mapping, str_lower(bundle), bundle)
        mapped_pod     == IF truthy(pod) THEN str_lower(pod) ELSE pod
    IN  <<app, mapped_cluster, mapped_bundle, mapped_pod>>

----------------------------------------------------------------------------
(* Values used by the requests of this model.                              *)

FOBPM == <<"F","O","B","P","M">>
cluster1 == <<"c","l","u","s","t","e","r","1">>
Cluster1 == <<"C","l","u","s","t","e","r","1">>
ClusterProdAKS1 == <<"C","l","u","s","t","e","r"," ","P","r","o","d"," ","A","K","S"," ","1">>
iotsubscription == <<"i","o","t","s","u","b","s","c","r","i","p","t","i","o","n">>
IOTSubscription == <<"I","O","T","S","u","b","s","c","r","i","p","t","i","o","n">>
IotSubscription == <<"I","o","t","S","u","b","s","c","r","i","p","t","i","o","n">>
BUSINESSRULES == <<"B","U","S","I","N","E","S","S","R","U","L","E","S">>
payments == <<"p","a","y","m","e","n","t","s">>
Web1 == <<"W","e","b","-","1">>
web1 == <<"w","e","b","-","1">>

----------------------------------------------------------------------------
(* The normalizer applied to bounded inputs, once and then to its own      *)
(* result.                                                                 *)

NormApps == {<<>>, FOBPM}

NormClusters == {<<>>, cluster1, Cluster1, ClusterProdAKS1, payments}

NormBundles ==
    {<<>>, iotsubscription, IOTSubscription, IotSubscription, BUSINESSRULES, payments}

NormPods == {None, <<>>, Web1, web1}

NormIdle == [phase |-> "idle", input |-> <<>>, once |-> <<>>, twice |-> <<>>]

Normalize ==
    /\ norm.phase = "input"
    /\ norm' = [norm EXCEPT
            !.phase = "once",
            !.once = map_frontend_to_elasticsearch_values(
                        norm.input[1], norm.input[2], norm.input[3], norm.input[4])]
    /\ UNCHANGED <<cache, store, clock, nreq, req, resp, calls, ai, svc, files, fn, threads>>

NormalizeAgain ==
    /\ norm.phase = "once"
    /\ norm' = [norm EXCEPT
            !.phase = "twice",
            !.twice = map_frontend_to_elasticsearch_values(
                        norm.once[1], norm.once[2], norm.once[3], norm.once[4])]
    /\ UNCHANGED <<cache, store, clock, nreq, req, resp, calls, ai, svc, files, fn, threads>>

----------------------------------------------------------------------------
(* Calls made while a request is answered.  arg is a tuple of texts.       *)

Call(op, arg, out) == [op |-> op, arg |-> arg, out |-> out]

\* calls that reach the search store over the network
StoreOps == {"health", "search", "aggregate", "bulk"}

\* calls that produce synthetic log lines
GenerateOps == {"auto_generate", "generate_samples"}

----------------------------------------------------------------------------
(* Log text.  kind tells what the text is; hits are the store documents a  *)
(* formatted search result lists; levels are the levels of generated       *)
(* lines, in order; base is the time generated lines start at.             *)

Text(kind, hits, levels, base) ==
    [kind |-> kind, hits |-> hits, levels |-> levels, base |-> base]

\* Python's None / '' where a text is expected
NoText == Text("None", {}, <<>>, 0)

text_truthy(t) == t.kind # "None"

\* the pod-logs payload: the metadata block followed by the content
Payload(loaded, source, pod, app, cluster, bundle, content) ==
    [loaded |-> loaded, source |-> source, pod |-> pod, application |-> app,
     cluster |-> cluster, bundle |-> bundle, content |-> content]

NoPayload == Payload(0, "None", <<>>, <<>>, <<>>, <<>>, NoText)

\* a cached payload that is never taken as present
payload_truthy_never(p) == FALSE

\* truthiness of a payload: None and '' are falsy
payload_truthy(p) == p # NoPayload

----------------------------------------------------------------------------
(* Search store adapter (ElasticsearchService).                            *)

Doc(app, cluster, bundle, pod) ==
    [application |-> app, cluster |-> cluster, bundle |-> bundle, pod |-> pod]

\* outcomes of GET /_cluster/health: status 200, another status, no answer
\* within 5 s, no connection, or another exception
ProbeOutcomes == {"200", "non200", "timeout", "connection_error", "exception"}

\* outcomes of a POST to the store: status 200 with a well-formed body,
\* another status, status 200 with a body missing the expected keys, or an
\* exception
PostOutcomes == {"200", "non200", "malformed", "exception"}

\* a probe that takes every answered request as success
is_available_any_status(probe) == probe \notin {"timeout", "connection_error", "exception"}

is_available(probe) == probe = "200"

\* how the outcome of a query is entered in the call log
Outcome(o, hits) ==
    IF o # "200" THEN "failed" ELSE IF hits = {} THEN "empty" ELSE "found"

\* the documents matching one term clause per truthy parameter of
\* q = <<application, cluster, bundle, pod>>
Match(st, q) ==
    {d \in st :
        /\ truthy(q[1]) => d.application = q[1]
        /\ truthy(q[2]) => d.cluster = q[2]
        /\ truthy(q[3]) => d.bundle = q[3]
        /\ truthy(q[4]) => d.pod = q[4]}

\* a search that sends a failed query a second time
search_logs_retrying_once(st, q) ==
    UNION {
        IF ~is_available(h)
        THEN {[logs |-> {}, calls |-> <<Call("health", <<>>, "down")>>]}
        ELSE {[logs  |-> Match(st, q),
               calls |-> <<Call("health", <<>>, "up"),
                           Call("search", q, Outcome("200", Match(st, q)))>>]}
             \cup
             {[logs  |-> IF o = "200" THEN Match(st, q) ELSE {},
               calls |-> <<Call("health", <<>>, "up"), Call("search", q, "failed"),
                           Call("search", q, Outcome(o, Match(st, q)))>>]
                : o \in PostOutcomes}
        : h \in ProbeOutcomes}

\* every way search_logs(q) can end: the logs returned and the calls made
search_logs(st, q) ==
    UNION {
        IF ~is_available(h)
        THEN {[logs |-> {}, calls |-> <<Call("health", <<>>, "down")>>]}
        ELSE {[logs  |-> IF o = "200" THEN Match(st, q) ELSE {},
               calls |-> <<Call("health", <<>>, "up"), Call("search", q, Outcome(o, Match(st, q)))>>]
                : o \in PostOutcomes}
        : h \in ProbeOutcomes}

\* bulk indexing that reports every entry of an accepted request as indexed
bulk_index_logs_all_indexed(st, docs) ==
    {[indexed |-> Cardinality(docs), errors |-> 0, store |-> st \cup S,
      calls |-> <<Call("bulk", <<>>, "ok")>>] : S \in SUBSET docs}

\* every way bulk_index_logs(docs) can end: the counts returned, the store
\* afterwards and the calls made.  With status 200 any subset of the items
\* may have been indexed; after an exception on the client side the store
\* may or may not have applied the request.
bulk_index_logs(st, docs) ==
    IF docs = {}
    THEN {[indexed |-> 0, errors |-> 0, store |-> st, calls |-> <<>>]}
    ELSE {[indexed |-> Cardinality(S),
           errors  |-> Cardinality(docs) - Cardinality(S),
           store   |-> st \cup S,
           calls   |-> <<Call("bulk", <<>>, "ok")>>] : S \in SUBSET docs}
         \cup
         {[indexed |-> 0, errors |-> Cardinality(docs), store |-> st,
           calls   |-> <<Call("bulk", <<>>, "failed")>>] : o \in {"non200", "malformed"}}
         \cup
         {[indexed |-> 0, errors |-> Cardinality(docs), store |-> st2,
           calls   |-> <<Call("bulk", <<>>, "failed")>>]
                : st2 \in {st, st \cup docs}}

\* every way get_log_statistics(filters) can end: whether the result has a
\* 'pods' entry, the pod names in it, and the calls made
get_log_statistics(st, q) ==
    {[has_pods |-> o = "200",
      pods     |-> IF o = "200" THEN {d.pod : d \in Match(st, <<q[1], q[2], q[3], None>>)}
                   ELSE {},
      calls    |-> <<Call("aggregate", q, Outcome(o, Match(st, <<q[1], q[2], q[3], None>>)))>>] : o \in PostOutcomes}

----------------------------------------------------------------------------
(* Cache layer (django.core.cache, LocMemCache).  An entry holds the value *)
(* and its expiry time; written and writer record when and for which       *)
(* stripped filter the entry was set.                                      *)

CacheValue(logs, pods) == [logs |-> logs, pods |-> pods]

NoValue == CacheValue(NoPayload, {})

\* cache.get(key): the value of an unexpired entry, else None
cache_get(c, key, now) ==
    IF \E e \in c : e.key = key /\ ~(e.expires <= now)
    THEN (CHOOSE e \in c : e.key = key).value
    ELSE NoValue

\* how a cache read is entered in the call log
cache_lookup(c, key, now) ==
    IF \E e \in c : e.key = key /\ ~(e.expires <= now) THEN "hit"
    ELSE IF \E e \in c : e.key = key THEN "expired"
    ELSE "absent"

\* cache.get drops an expired entry it finds
cache_after_get(c, key, now) ==
    {e \in c : ~(e.key = key /\ e.expires <= now)}

\* a set that fills the new entry with parts of the entry it replaces
cache_set_merging_values(c, key, value, timeout, now, writer) ==
    LET old == {e \in c : e.key = key}
        merged ==
            IF old = {} THEN value
            ELSE LET o == (CHOOSE e \in old : TRUE).value
                 IN  [logs |-> IF value.logs = NoPayload THEN value.logs
                               ELSE [value.logs EXCEPT !.content = o.logs.content,
                                                       !.source = o.logs.source],
                      pods |-> value.pods \cup o.pods]
    IN  {e \in c : e.key # key}
            \cup {[key |-> key, value |-> merged, expires |-> now + timeout,
                   written |-> now, writer |-> writer]}

\* a set that leaves an entry already stored under the key as it is
cache_set_keeping_existing(c, key, value, timeout, now, writer) ==
    IF \E e \in c : e.key = key
    THEN c
    ELSE c \cup {[key |-> key, value |-> value, expires |-> now + timeout,
                  written |-> now, writer |-> writer]}

\* cache.set(key, value, timeout)
cache_set(c, key, value, timeout, now, writer) ==
    {e \in c : e.key # key}
        \cup {[key |-> key, value |-> value, expires |-> now + timeout,
               written |-> now, writer |-> writer]}

\* Cache timeouts
SEARCH_CACHE_TIMEOUT == 60

PODS_CACHE_TIMEOUT == 120

\* the timeout get_pod_logs passes to cache.set
POD_LOGS_CACHE_TIMEOUT == 30

----------------------------------------------------------------------------
(* Responses.                                                              *)

Response(status, error, logs, pods, log, log_source) ==
    [status |-> status, error |-> error, logs |-> logs, pods |-> pods,
     log |-> log, log_source |-> log_source]

\* the response has no log_source entry
NoLogSource == "<absent>"

NoResponse == Response(0, "", NoPayload, {}, NoText, NoLogSource)

\* what a handler did: its response, its calls, and the cache and store
\* it leaves behind
Result(r, cs, c, st) == [resp |-> r, calls |-> cs, cache |-> c, store |-> st]

----------------------------------------------------------------------------
(* Synthetic log generation.                                               *)

RECURSIVE contains(_, _)
\* sub in s
contains(sub, s) ==
    IF Len(s) < Len(sub) THEN FALSE
    ELSE IF SubSeq(s, 1, Len(sub)) = sub THEN TRUE
    ELSE contains(sub, Tail(s))

\* one line '[<time>] <level>: <text><value>' of the generated logs; the time
\* is kept in seconds, which '%Y-%m-%d %H:%M:%S' renders one to one
LogLine(time, level, text, value) ==
    [time |-> time, level |-> level, text |-> text, value |-> value]

\* the four startup lines
startup_lines(app, cluster, bundle, pod, base_time) ==
    <<LogLine(base_time, "INFO", "Starting pod ", pod),
      LogLine(base_time + 1, "INFO", "Application: ", app),
      LogLine(base_time + 2, "INFO", "Cluster: ", cluster),
      LogLine(base_time + 3, "INFO", "Bundle: ", bundle)>>

\* the block of a pod whose name has 'error', of one whose name has 'warn',
\* and of every other pod
service_lines(pod, current_time) ==
    IF contains(<<"e","r","r","o","r">>, str_lower(pod))
    THEN <<LogLine(current_time, "INFO", "Processing incoming requests...", <<>>),
           LogLine(current_time + 30, "WARN", "High memory usage detected: 85%", <<>>),
           LogLine(current_time + 60, "ERROR", "Database connection timeout after 30s", <<>>),
           LogLine(current_time + 90, "ERROR",
                   "Failed to process request: connection refused", <<>>),
           LogLine(current_time + 120, "FATAL", "Critical error - service unavailable", <<>>)>>
    ELSE IF contains(<<"w","a","r","n">>, str_lower(pod))
    THEN <<LogLine(current_time, "INFO", "Service operational - processing requests", <<>>),
           LogLine(current_time + 45, "WARN", "High CPU usage detected: 78%", <<>>),
           LogLine(current_time + 90, "WARN", "Response time degradation: 2.8s (SLA: 1s)", <<>>),
           LogLine(current_time + 135, "WARN", "Queue backlog growing: 150 pending items", <<>>)>>
    ELSE <<LogLine(current_time, "INFO", "Service running normally", <<>>),
           LogLine(current_time + 60, "INFO", "Processed 250 requests in last minute", <<>>),
           LogLine(current_time + 120, "INFO", "Health check passed - all systems green", <<>>),
           LogLine(current_time + 180, "INFO", "Database queries avg response: 45ms", <<>>)>>

\* a generator whose block starts at the time of the last startup line
auto_generate_pod_log_lines_without_gap(app, cluster, bundle, pod, now) ==
    LET base_time == now - 5400
    IN  startup_lines(app, cluster, bundle, pod, base_time)
            \o service_lines(pod, base_time + 3)

\* the lines of the generated logs: the startup sequence from an hour and a
\* half ago, and the block of the pod 20 s after it
auto_generate_pod_log_lines(app, cluster, bundle, pod, now) ==
    LET base_time == now - 5400
    IN  startup_lines(app, cluster, bundle, pod, base_time)
            \o service_lines(pod, base_time + 20)

\* startup lines, then lines that depend on the pod name
auto_generate_pod_logs(app, cluster, bundle, pod, now) ==
    LET logs == auto_generate_pod_log_lines(app, cluster, bundle, pod, now)
    IN  [kind |-> "generated", hits |-> {},
         levels |-> [i \in 1..Len(logs) |-> logs[i].level],
         base |-> now - 5400, lines |-> logs]

\* every generated line is skipped as if it were a comment, so nothing is
\* sent
index_generated_logs_skipping_lines(st, log_content, app, cluster, bundle) ==
    bulk_index_logs(st, {})

\* one entry per line that is neither blank nor a '#' comment, all for pod
\* '<app>-<bundle>-pod', sent in one bulk request if there is any entry
index_generated_logs_to_elasticsearch(st, log_content, app, cluster, bundle) ==
    LET log_entries ==
            IF Len(log_content.levels) > 0
            THEN {Doc(app, cluster, bundle, app \o <<"-">> \o bundle \o <<"-","p","o","d">>)}
            ELSE {}
    IN  bulk_index_logs(st, log_entries)

----------------------------------------------------------------------------
(* Formatting of search results.                                           *)

\* a header naming the source, then one line per log
format_elasticsearch_logs(logs) ==
    IF logs = {}
    THEN Text("no-logs-message", {}, <<>>, 0)
    ELSE Text("elasticsearch", logs, <<>>, 0)

----------------------------------------------------------------------------
(* Pod logs: POST get_pod_logs.                                            *)

\* the key built from the mapped values instead of the original ones
cache_key_pod_logs_mapped(app, cluster, bundle, pod) ==
    LET m == map_frontend_to_elasticsearch_values(app, cluster, bundle, pod)
    IN  <<"p","o","d","_","l","o","g","s","_">>
            \o sanitize_filename(m[1]) \o <<"_">> \o sanitize_filename(m[2])
            \o <<"_">> \o sanitize_filename(m[3]) \o <<"_">> \o sanitize_filename(m[4])

cache_key_pod_logs(app, cluster, bundle, pod) ==
    <<"p","o","d","_","l","o","g","s","_">>
        \o sanitize_filename(app) \o <<"_">> \o sanitize_filename(cluster)
        \o <<"_">> \o sanitize_filename(bundle) \o <<"_">> \o sanitize_filename(pod)

\* every way the store lookup can end: the formatted logs or None, and the
\* calls made
get_pod_logs_from_elasticsearch(st, app, cluster, bundle, pod) ==
    LET m == map_frontend_to_elasticsearch_values(app, cluster, bundle, pod)
    IN  {[val   |-> IF r.logs # {} THEN format_elasticsearch_logs(r.logs) ELSE NoText,
          calls |-> r.calls] : r \in search_logs(st, m)}

\* placeholder: returns (None, None)
get_pod_logs_from_files(app, cluster, bundle, pod) ==
    [log_content |-> NoText, found_log_source |-> "None"]

MissingParameters ==
    Response(400, "Missing required parameters", NoPayload, {}, NoText, NoLogSource)

LogsResponse(logs) == Response(200, "", logs, {}, NoText, NoLogSource)

\* every way the handler can answer request rq with cache c and store st
\* at time now
get_pod_logs(rq, c, st, now) ==
    LET app     == strip(rq.application)
        cluster == strip(rq.cluster)
        bundle  == strip(rq.bundle)
        pod     == strip(rq.pod)
    IN
    IF ~all_truthy(<<app, cluster, bundle, pod>>)
    THEN {Result(MissingParameters, <<>>, c, st)}
    ELSE
    LET cache_key   == cache_key_pod_logs(app, cluster, bundle, pod)
        cached_logs == cache_get(c, cache_key, now).logs
        c1          == cache_after_get(c, cache_key, now)
        finish(found_log_source, log_content, cs, st2) ==
            LET final_log_content ==
                    Payload(now, found_log_source, pod, app, cluster, bundle, log_content)
            IN  Result(LogsResponse(final_log_content),
                       <<Call("cache_get", <<cache_key>>, cache_lookup(c, cache_key, now))>> \o cs
                            \o <<Call("cache_set", <<cache_key>>, "set")>>,
                       cache_set(c1, cache_key, CacheValue(final_log_content, {}),
                                 POD_LOGS_CACHE_TIMEOUT, now, <<app, cluster, bundle, pod>>),
                       st2)
    IN
    IF payload_truthy(cached_logs)
    THEN {Result(LogsResponse(cached_logs),
                 <<Call("cache_get", <<cache_key>>, "hit")>>, c1, st)}
    ELSE UNION {
        IF text_truthy(es.val)
        THEN {finish("elasticsearch", es.val, es.calls, st)}
        ELSE
        LET from_files == get_pod_logs_from_files(app, cluster, bundle, pod)
        IN
        IF text_truthy(from_files.log_content)
        THEN {finish(from_files.found_log_source, from_files.log_content, es.calls, st)}
        ELSE
        LET log_content == auto_generate_pod_logs(app, cluster, bundle, pod, now)
        IN  {finish("auto-generated", log_content,
                    es.calls \o <<Call("auto_generate", <<pod>>, "ok")>> \o ix.calls,
                    ix.store)
                : ix \in index_generated_logs_to_elasticsearch(
                            st, log_content, app, cluster, bundle)}
        : es \in get_pod_logs_from_elasticsearch(st, app, cluster, bundle, pod)}

----------------------------------------------------------------------------
(* Pod list: POST get_pods.                                                *)

cache_key_pods(app, cluster, bundle) ==
    <<"p","o","d","s","_">>
        \o sanitize_filename(app) \o <<"_">> \o sanitize_filename(cluster)
        \o <<"_">> \o sanitize_filename(bundle)

\* every way the aggregation lookup can end: the pod names found (none on
\* any failure) and the calls made
get_pods_from_elasticsearch(st, app, cluster, bundle) ==
    LET m == map_frontend_to_elasticsearch_values(app, cluster, bundle, None)
    IN  {[val   |-> IF stats.has_pods THEN stats.pods ELSE {},
          calls |-> stats.calls]
            : stats \in get_log_statistics(st, <<m[1], m[2], m[3]>>)}

\* what pods_config.json holds for the filter: the file may be missing or
\* unreadable, or hold no list or a list of pods for this combination
ConfigPods == {<<"c","o","n","f","i","g","-","p","o","d">>}

\* every list get_pods_from_config can return
get_pods_from_config(app, cluster, bundle) == {{}, ConfigPods}

\* a generator without the two demo pods
generate_sample_pods_without_demo(app, bundle) ==
    LET stem == sanitize_filename(app) \o <<"-">> \o sanitize_filename(bundle)
    IN  {stem \o <<"-","w","e","b","-","0","0","1">>,
         stem \o <<"-","w","e","b","-","0","0","2">>,
         stem \o <<"-","a","p","i","-","0","0","1">>,
         stem \o <<"-","w","o","r","k","e","r","-","0","0","1">>}

\* a generator that yields no pod
generate_sample_pods_none(app, bundle) == {}

\* six demo pods named after the sanitized application and bundle
generate_sample_pods(app, bundle) ==
    LET stem == sanitize_filename(app) \o <<"-">> \o sanitize_filename(bundle)
    IN  {stem \o <<"-","w","e","b","-","0","0","1">>,
         stem \o <<"-","w","e","b","-","0","0","2">>,
         stem \o <<"-","a","p","i","-","0","0","1">>,
         stem \o <<"-","w","o","r","k","e","r","-","0","0","1">>,
         stem \o <<"-","e","r","r","o","r","-","p","o","d">>,
         stem \o <<"-","w","a","r","n","-","s","e","r","v","i","c","e">>}

PodsResponse(pods) == Response(200, "", NoPayload, pods, NoText, NoLogSource)

get_pods(rq, c, st, now) ==
    LET app     == strip(rq.application)
        cluster == strip(rq.cluster)
        bundle  == strip(rq.bundle)
    IN
    IF ~all_truthy(<<app, cluster, bundle>>)
    THEN {Result(MissingParameters, <<>>, c, st)}
    ELSE
    LET cache_key   == cache_key_pods(app, cluster, bundle)
        cached_pods == cache_get(c, cache_key, now).pods
        c1          == cache_after_get(c, cache_key, now)
        finish(pods, cs) ==
            Result(PodsResponse(pods),
                   <<Call("cache_get", <<cache_key>>, cache_lookup(c, cache_key, now))>> \o cs
                        \o <<Call("cache_set", <<cache_key>>, "set")>>,
                   cache_set(c1, cache_key, CacheValue(NoPayload, pods),
                             PODS_CACHE_TIMEOUT, now, <<app, cluster, bundle, None>>),
                   st)
    IN
    IF cached_pods # {}
    THEN {Result(PodsResponse(cached_pods),
                 <<Call("cache_get", <<cache_key>>, "hit")>>, c1, st)}
    ELSE UNION {
        IF es.val # {}
        THEN {finish(es.val, es.calls)}
        ELSE {IF pods # {}
              THEN finish(pods, es.calls \o <<Call("config", <<>>, "ok")>>)
              ELSE finish(generate_sample_pods(app, bundle),
                          es.calls \o <<Call("config", <<>>, "empty")>>
                              \o <<Call("generate_pods", <<>>, "ok")>>)
                : pods \in get_pods_from_config(app, cluster, bundle)}
        : es \in get_pods_from_elasticsearch(st, app, cluster, bundle)}

----------------------------------------------------------------------------
(* Main page: POST index.                                                  *)

\* an order that sends the original values first
search_order_original_first(app, cluster, bundle) ==
    LET m == map_frontend_to_elasticsearch_values(app, cluster, bundle, None)
    IN  << <<app, cluster, bundle, None>>, <<m[1], m[2], m[3], None>> >>

\* the queries of the two stages in the order they are sent: the mapped
\* values first, the original values second
search_order(app, cluster, bundle) ==
    LET m == map_frontend_to_elasticsearch_values(app, cluster, bundle, None)
    IN  << <<m[1], m[2], m[3], None>>, <<app, cluster, bundle, None>> >>

\* what one search_logs call of the two-stage search was asked and returned
SearchedFor(q, logs) == [query |-> q, logs |-> logs]

\* every way the two-stage search can end: the logs found, the error
\* entry of the result ("" if it has none), the search_logs calls made and
\* the calls that reached the store
get_logs_from_elasticsearch_enhanced(st, app, cluster, bundle) ==
    UNION {
        IF ~is_available(h)
        THEN {[logs |-> {}, error |-> "Elasticsearch not available", searched |-> <<>>,
               calls |-> <<Call("health", <<>>, "down")>>]}
        ELSE
        LET qs == search_order(app, cluster, bundle)
        IN  UNION {
                IF result.logs # {}
                THEN {[logs  |-> result.logs, error |-> "",
                       searched |-> <<SearchedFor(qs[1], result.logs)>>,
                       calls |-> <<Call("health", <<>>, "up")>> \o result.calls]}
                ELSE {[logs  |-> result_original.logs,
                       error |-> IF result_original.logs # {} THEN "" ELSE "No logs found",
                       searched |-> <<SearchedFor(qs[1], result.logs),
                                      SearchedFor(qs[2], result_original.logs)>>,
                       calls |-> <<Call("health", <<>>, "up")>> \o result.calls
                                    \o result_original.calls]
                        : result_original \in search_logs(st, qs[2])}
                : result \in search_logs(st, qs[1])}
        : h \in ProbeOutcomes}

\* a synthesis that fails and returns the empty list
generate_specific_sample_logs_none(app, cluster, bundle) == {}

\* the documents of the three synthetic pods '<app>-<bundle>-web-00N', each
\* carrying the application, cluster and bundle it was generated for
generate_specific_sample_logs(app, cluster, bundle) ==
    {Doc(app, cluster, bundle,
         str_lower(app) \o <<"-">> \o str_lower(bundle) \o <<"-","w","e","b","-","0","0">> \o <<n>>)
        : n \in {"1", "2", "3"}}

\* the message catalogue of each level; a message with a random number in
\* it is kept by its fixed part
log_messages ==
    [l \in {"INFO", "WARN", "ERROR"} |->
        CASE l = "INFO" ->
                <<"Service started successfully",
                  "Processing request completed",
                  "Health check passed",
                  "Database connection established",
                  "User authenticated successfully",
                  "Request processed in <n>ms",
                  "Cache hit for key: user_<n>",
                  "Background job completed",
                  "Configuration loaded successfully",
                  "Transaction completed successfully">>
          [] l = "WARN" ->
                <<"High memory usage detected: <n>%",
                  "Response time degradation: <x>s",
                  "Queue backlog growing: <n> pending items",
                  "Connection pool near capacity: <n>%",
                  "Cache miss ratio high: <n>%",
                  "Slow query detected: <n>ms">>
          [] l = "ERROR" ->
                <<"Database connection timeout after <n>s",
                  "Failed to process request: connection refused",
                  "Authentication failed: invalid credentials",
                  "OutOfMemoryError: Java heap space",
                  "Network timeout: connection reset by peer",
                  "Service temporarily unavailable",
                  "Invalid request format">>]

\* The random generator as the synthesis sees it.  A run is given by the
\* three values of randint(20, 30) and, for the entries, a first draw and a
\* step: the k-th entry generated takes the draw first + (k - 1) * step,
\* folded into the range of the call.
Draws(log_count, minutes, seconds, level, message, step) ==
    [log_count |-> log_count, minutes |-> minutes, seconds |-> seconds,
     level |-> level, message |-> message, step |-> step]

\* random.randint(lo, hi) for the k-th entry, from the first draw d
randint(lo, hi, d, step, k) == lo + (((d - lo) + (k - 1) * step) % (hi - lo + 1))

\* random.choices(['INFO', 'WARN', 'ERROR'], weights=[70, 20, 10])[0]: every
\* level has positive weight
choices_level(n) == <<"INFO", "WARN", "ERROR">>[(n % 3) + 1]

\* a choice that takes the message from the INFO catalogue whatever the level
random_choice_message_of_info(level, n) ==
    log_messages["INFO"][(n % Len(log_messages["INFO"])) + 1]

\* random.choice(log_messages[level])
random_choice_message(level, n) ==
    log_messages[level][(n % Len(log_messages[level])) + 1]

\* the pod name '<app>-<bundle>-web-<pod_num:03d>'
sample_pod_name(app, bundle, pod_num) ==
    str_lower(app) \o <<"-">> \o str_lower(bundle)
        \o <<"-","w","e","b","-","0","0">> \o << <<"1", "2", "3">>[pod_num] >>

\* the k-th entry generated, for pod pod_name; times are in seconds
sample_log_entry(app, cluster, bundle, pod_name, now, rnd, k) ==
    LET base_time == now - 2 * 3600
        log_time  == base_time
                        + 60 * randint(0, 120, rnd.minutes, rnd.step, k)
                        + randint(0, 59, rnd.seconds, rnd.step, k)
        level     == choices_level(rnd.level + (k - 1) * rnd.step)
        message   == random_choice_message(level, rnd.message + (k - 1) * rnd.step)
    IN  [timestamp |-> log_time, application |-> app, cluster |-> cluster,
         bundle |-> bundle, pod |-> pod_name, log_level |-> level,
         log_message |-> message, source_file |-> "elasticsearch"]

\* the entries of the pods 1 .. pod_num, in the order they are appended
RECURSIVE sample_logs_of_pods(_, _, _, _, _, _)
sample_logs_of_pods(app, cluster, bundle, now, rnd, pod_num) ==
    IF pod_num = 0 THEN <<>>
    ELSE
    LET before   == sample_logs_of_pods(app, cluster, bundle, now, rnd, pod_num - 1)
        pod_name == sample_pod_name(app, bundle, pod_num)
    IN  before \o
        [i \in 1..rnd.log_count[pod_num] |->
            sample_log_entry(app, cluster, bundle, pod_name, now, rnd, Len(before) + i)]

\* generate_specific_sample_logs as the list it returns at time now under
\* the random run rnd: three pods, log_count entries each.  The optional
\* response_time and status_code of an entry are left out.
generate_specific_sample_entries(app, cluster, bundle, now, rnd) ==
    sample_logs_of_pods(app, cluster, bundle, now, rnd, 3)

\* what the file system holds for a fallback log file: no file, a file
\* with content, an empty file, a file that cannot be read, or a file that
\* is not valid UTF-8
FileOutcomes == {"absent", "content", "empty", "io_error", "decode_error"}

\* '<app>-<bundle>.log', both parts sanitized
simple_log_name(app, bundle) ==
    sanitize_filename(app) \o <<"-">> \o sanitize_filename(bundle) \o <<".", "l", "o", "g">>

\* '<app>-<bundle>-<timestamp>.log'; the timestamp of the current second
\* is kept as one element
log_file_name(app, bundle, now) ==
    sanitize_filename(app) \o <<"-">> \o sanitize_filename(bundle)
        \o <<"-", "<timestamp>", ".", "l", "o", "g">>

\* the context entries one reading of the fallback files yields; simple is
\* the state of '<app>-<bundle>.log', stamped that of the timestamped
\* variant.  A read is entered in the call log with the name of the file.
file_based_context(app, cluster, bundle, now, simple, stamped) ==
    LET found == IF simple # "absent" THEN simple ELSE stamped
        name  == IF simple # "absent" THEN simple_log_name(app, bundle)
                 ELSE log_file_name(app, bundle, now)
    IN
    IF found = "content"
    THEN [log |-> Text("file", {}, <<>>, 0), log_source |-> "file",
          calls |-> <<Call("file_read", <<name>>, "ok")>>]
    ELSE IF found = "empty"
    THEN [log |-> NoText, log_source |-> "file",
          calls |-> <<Call("file_read", <<name>>, "ok")>>]
    ELSE IF found = "decode_error"
    THEN [log |-> Text("error-invalid-characters", {}, <<>>, 0),
          log_source |-> NoLogSource,
          calls |-> <<Call("file_read", <<name>>, "failed")>>]
    ELSE IF found = "io_error"
    THEN [log |-> Text("error-reading-log-file", {}, <<>>, 0),
          log_source |-> NoLogSource,
          calls |-> <<Call("file_read", <<name>>, "failed")>>]
    ELSE
    LET pod == app \o <<"-">> \o bundle \o <<"-","p","o","d">>
        log_content == auto_generate_pod_logs(app, cluster, bundle, pod, now)
    IN  [log |-> Text("generated-with-header", {}, log_content.levels, log_content.base),
         log_source |-> "auto-generated",
         calls |-> <<Call("auto_generate", <<pod>>, "ok")>>]

\* the directory app/static/logs without any file
NoFiles == [name \in {} |-> "absent"]

\* os.path.exists and what reading the file gives
file_state(fs, name) == IF name \in DOMAIN fs THEN fs[name] ELSE "absent"

\* a fallback that keeps the generated text in the timestamped file
get_file_based_logs_saving_generated(app, cluster, bundle, now, fs) ==
    LET ctx == file_based_context(app, cluster, bundle, now,
                    file_state(fs, simple_log_name(app, bundle)),
                    file_state(fs, log_file_name(app, bundle, now)))
        name == log_file_name(app, bundle, now)
    IN  {[log |-> ctx.log, log_source |-> ctx.log_source, calls |-> ctx.calls,
          files |-> IF ctx.log_source = "auto-generated"
                    THEN [n \in DOMAIN fs \cup {name} |->
                            IF n = name THEN "content" ELSE fs[n]]
                    ELSE fs]}

\* The file fallback on the files fs: the context entries, the calls made
\* and the files afterwards.  The files are opened for reading only.
get_file_based_logs(app, cluster, bundle, now, fs) ==
    LET ctx == file_based_context(app, cluster, bundle, now,
                    file_state(fs, simple_log_name(app, bundle)),
                    file_state(fs, log_file_name(app, bundle, now)))
    IN  {[log |-> ctx.log, log_source |-> ctx.log_source, calls |-> ctx.calls,
          files |-> fs]}

SelectFieldsError ==
    Response(200, "Please select Application, Cluster, and Bundle", NoPayload, {},
             Text("error-select-fields", {}, <<>>, 0), NoLogSource)

PageResponse(log, log_source) == Response(200, "", NoPayload, {}, log, log_source)

\* what the view did: as Result, with the fallback log files it leaves
IndexResult(r, cs, st, fs) ==
    [resp |-> r, calls |-> cs, cache |-> {}, store |-> st, files |-> fs]

\* every way the view can answer request rq with store st and fallback
\* files fs at time now
index(rq, st, now, fs) ==
    LET app     == strip(rq.application)
        cluster == strip(rq.cluster)
        bundle  == strip(rq.bundle)
        fallback(cs, st2) ==
            {IndexResult(PageResponse(ctx.log, ctx.log_source), cs \o ctx.calls, st2,
                         ctx.files)
                : ctx \in get_file_based_logs(app, cluster, bundle, now, fs)}
        found(es_logs, cs, st2) ==
            {IndexResult(PageResponse(format_elasticsearch_logs(es_logs), "elasticsearch"),
                         cs, st2, fs)}
    IN
    IF ~all_truthy(<<app, cluster, bundle>>)
    THEN {IndexResult(SelectFieldsError, <<>>, st, fs)}
    ELSE UNION {
        IF ~is_available(h)
        THEN fallback(<<Call("health", <<>>, "down")>>, st)
        ELSE UNION {
            IF es_logs.logs # {}
            THEN found(es_logs.logs, <<Call("health", <<>>, "up")>> \o es_logs.calls, st)
            ELSE
            LET sample_logs == generate_specific_sample_logs(app, cluster, bundle)
                cs1 == <<Call("health", <<>>, "up")>> \o es_logs.calls
                          \o <<Call("generate_samples", <<>>, "ok")>>
            IN
            IF sample_logs # {}
            THEN UNION {
                    UNION {
                        IF again.logs # {}
                        THEN found(again.logs, cs1 \o result.calls \o again.calls,
                                   result.store)
                        ELSE fallback(cs1 \o result.calls \o again.calls, result.store)
                        : again \in get_logs_from_elasticsearch_enhanced(
                                        result.store, app, cluster, bundle)}
                    : result \in bulk_index_logs(st, sample_logs)}
            ELSE fallback(cs1, st)
            : es_logs \in get_logs_from_elasticsearch_enhanced(st, app, cluster, bundle)}
        : h \in ProbeOutcomes}

----------------------------------------------------------------------------
(* Requests, as the POST parameters arrive (before stripping).             *)

Request(op, app, cluster, bundle, pod) ==
    [op |-> op, application |-> app, cluster |-> cluster, bundle |-> bundle, pod |-> pod]

NoRequest == Request("none", <<>>, <<>>, <<>>, <<>>)

ReqApps == {<<>>, FOBPM \o <<" ">>}

ReqClusters == {<<" ">>, cluster1, ClusterProdAKS1}

ReqBundles == {<<>>, iotsubscription}

ReqPods == {<<" ">>, Web1}

PodLogsRequests ==
    {Request("get_pod_logs", a, c, b, p) :
        a \in ReqApps, c \in ReqClusters, b \in ReqBundles, p \in ReqPods}

PodsRequests ==
    {Request("get_pods", a, c, b, <<>>) :
        a \in ReqApps, c \in ReqClusters, b \in ReqBundles}

IndexRequests ==
    {Request("index", a, c, b, <<>>) :
        a \in ReqApps, c \in ReqClusters, b \in ReqBundles}

\* documents the store may hold at the start: one stored under the
\* canonical (mapped) vocabulary, one under the form's vocabulary
SeedDocs ==
    {Doc(FOBPM, ClusterProdAKS1, IOTSubscription, web1),
     Doc(FOBPM, cluster1, iotsubscription, Web1)}

----------------------------------------------------------------------------
(* Analysis engine (summarize_logs, analyze_logs): the remote model first, *)
(* the local pattern analyzer as fallback.                                 *)

\* sub in s, for str operands
str_in(sub, s) ==
    \E i \in 1..(Len(s) - Len(sub) + 1) :
        s[i] = sub[1] /\ SubSeq(s, i, i + Len(sub) - 1) = sub

\* s.split('\n')
split_lines(s) ==
    LET P == {i \in 1..Len(s) : s[i] = "\n"}
        cut(k) == IF k = 0 THEN 0
                  ELSE IF k > Cardinality(P) THEN Len(s) + 1
                  ELSE CHOOSE p \in P : Cardinality({q \in P : q < p}) = k - 1
    IN  [k \in 1..(Cardinality(P) + 1) |-> SubSeq(s, cut(k - 1) + 1, cut(k) - 1)]

\* len([line for line in lines if <word> in line])
count_lines(word, lines) == Cardinality({k \in 1..Len(lines) : str_in(word, lines[k])})

WaitingForExecution == <<"W", "a", "i", "t", "i", "n", "g", " ", "f", "o", "r", " ", "e", "x", "e", "c", "u", "t", "i", "o", "n", ".", ".", ".">>

FetchingPodLogs == <<"F", "e", "t", "c", "h", "i", "n", "g", " ", "p", "o", "d", " ", "l", "o", "g", "s", ".", ".", ".">>

\* texts the page shows before any log is loaded
Placeholders == {WaitingForExecution, FetchingPodLogs}

TruncationMarker == <<"\n", ".", ".", ".", " ", "(", "t", "r", "u", "n", "c", "a", "t", "e", "d", " ", "f", "o", "r", " ", "a", "n", "a", "l", "y", "s", "i", "s", ")">>

MAX_ANALYSIS_CHARS == 8000

\* first characters of the texts the engine produces (U+274C, U+1F916,
\* U+1F52C, U+1F4CA, U+1F50D)
CrossMark == "<cross mark>"

RobotFace == "<robot face>"

Microscope == "<microscope>"

BarChart == "<bar chart>"

Magnifier == "<magnifying glass>"

\* a text produced by the engine: its first character, the fixed heading
\* that follows, and the variable part (the model's answer, or the report
\* of the local analyzer)
AiText(head, title, body) == [head |-> head, title |-> title, body |-> body]

\* str.startswith for a one-character prefix
startswith(t, c) == t.head = c

\* the JSON answer of the two views; ai_service and model are "<absent>"
\* when the answer has no such keys
AnalysisResponse(field, text, ai_service, model) ==
    [field |-> field, text |-> text, ai_service |-> ai_service, model |-> model]

NoAnalysisResponse == AnalysisResponse("none", AiText("", "", <<>>), "<absent>", "<absent>")

\* POST parameters of an analysis request as received; None when absent
AnalysisRequest(intent, log_text, use_together) ==
    [intent |-> intent, log_text |-> log_text, use_together |-> use_together]

NoAnalysisRequest == AnalysisRequest("none", None, None)

\* request.POST.get(name, default)
post_get(v, default) == IF v = None THEN default ELSE v

\* the text truncated and sent whole, without the length check
truncate_never(log_text) == log_text

\* the log text placed in the user content of the remote request
truncate(log_text) ==
    IF Len(log_text) > MAX_ANALYSIS_CHARS
    THEN SubSeq(log_text, 1, MAX_ANALYSIS_CHARS) \o TruncationMarker
    ELSE log_text

\* an exception raised while the answer is read
Raised == <<"<raised>">>

\* Answers of POST /v1/chat/completions: no answer within 30 s, another
\* exception of the client, a status other than 200, or status 200 with a
\* body: not JSON, without 'choices', with an empty 'choices' list, with a
\* first choice without 'message' or without 'content', with a null
\* content, or with a str content.
RemoteBody(shape, content) == [shape |-> shape, content |-> content]

ModelAnswer == <<"A", "l", "l", " ", "g", "o", "o", "d">>

RemoteContents == {<<>>, <<" ">>, ModelAnswer, <<"\n">> \o ModelAnswer}

RemoteOutcomes ==
    {[status |-> s, body |-> RemoteBody("none", <<>>)] : s \in {"timeout", "exception", "non200"}}
    \cup {[status |-> "200", body |-> RemoteBody(sh, <<>>)]
            : sh \in {"not_json", "no_choices", "empty_choices", "no_message",
                      "no_content", "null_content"}}
    \cup {[status |-> "200", body |-> RemoteBody("content", c)] : c \in RemoteContents}

\* result.get("choices", [{}])[0].get("message", {}).get("content", "")
message_content(body) ==
    CASE body.shape \in {"not_json", "empty_choices"} -> Raised
      [] body.shape \in {"no_choices", "no_message", "no_content"} -> <<>>
      [] body.shape = "null_content" -> None
      [] OTHER -> body.content

\* how the outcome of the remote call is entered in the call log
RemoteLog(o) ==
    IF o.status # "200" THEN o.status
    ELSE IF message_content(o.body) = Raised THEN "unreadable"
    ELSE IF ~truthy(message_content(o.body)) THEN "empty"
    ELSE "content"

\* the remote call of either intent under outcome o: the text returned and
\* the call made, whose argument is the log text as sent
together_ai(intent, head, title, log_text, o) ==
    LET sent == truncate(log_text)
        content == message_content(o.body)
    IN  [text  |-> IF o.status = "timeout"
                   THEN AiText(CrossMark, "Together.ai request timeout", <<>>)
                   ELSE IF o.status = "exception"
                   THEN AiText(CrossMark, "Together.ai error", <<>>)
                   ELSE IF o.status # "200"
                   THEN AiText(CrossMark, "Together.ai API error", <<>>)
                   ELSE IF content = Raised
                   THEN AiText(CrossMark, "Together.ai error", <<>>)
                   ELSE IF truthy(content)
                   THEN AiText(head, title, strip(content))
                   ELSE AiText(CrossMark, "Received empty response from Together.ai", <<>>),
         calls |-> <<Call("together", <<intent, sent>>, RemoteLog(o))>>]

get_together_ai_summary(log_text, o) ==
    together_ai("summarize", RobotFace, "Together.ai Analysis", log_text, o)

get_together_ai_analysis(log_text, o) ==
    together_ai("analyze", Microscope, "Together.ai Root Cause Analysis", log_text, o)

INFO == <<"I", "N", "F", "O">>

WARN == <<"W", "A", "R", "N">>

ERROR == <<"E", "R", "R", "O", "R">>

\* [line for line in lines if <word> in line]
lines_with(word, lines) == SelectSeq(lines, LAMBDA line : str_in(word, line))

\* the first n elements of a list: s[:n]
first(s, n) == SubSeq(s, 1, IF Len(s) < n THEN Len(s) ELSE n)

\* a summary that reports warnings before errors
generate_local_summary_warnings_first(log_text) ==
    LET lines == split_lines(log_text)
        warn_count  == count_lines(WARN, lines)
        error_count == count_lines(ERROR, lines)
    IN  AiText(BarChart, "Local Log Analysis Engine",
            [total  |-> Cardinality({k \in 1..Len(lines) : strip(lines[k]) # <<>>}),
             info   |-> count_lines(INFO, lines),
             warn   |-> warn_count,
             error  |-> error_count,
             status |-> IF warn_count > 0 THEN "WARNINGS PRESENT"
                        ELSE IF error_count > 0 THEN "ERRORS DETECTED"
                        ELSE "HEALTHY",
             recommendations |-> <<>>])

\* The local summary: the counts, the status and the recommendations.  No
\* statement of the function raises for a str argument, so its except
\* branch is never taken.
generate_local_summary(log_text) ==
    LET lines == split_lines(log_text)
        info_count  == count_lines(INFO, lines)
        warn_count  == count_lines(WARN, lines)
        error_count == count_lines(ERROR, lines)
    IN  AiText(BarChart, "Local Log Analysis Engine",
            [total  |-> Cardinality({k \in 1..Len(lines) : strip(lines[k]) # <<>>}),
             info   |-> info_count,
             warn   |-> warn_count,
             error  |-> error_count,
             status |-> IF error_count > 0 THEN "ERRORS DETECTED"
                        ELSE IF warn_count > 0 THEN "WARNINGS PRESENT"
                        ELSE "HEALTHY",
             recommendations |->
                (IF error_count > 0
                 THEN <<"Immediate investigation required for errors">> ELSE <<>>)
                \o (IF warn_count > 0
                    THEN <<"Monitor warnings for potential issues">> ELSE <<>>)
                \o <<"Continue monitoring system health">>])

\* The local root cause analysis: the first three ERROR lines (or, without
\* any, the first three WARN lines) stripped, the number of further ones,
\* the causes suggested by keywords and the checklist that follows.
generate_local_rca(log_text) ==
    LET lines    == split_lines(log_text)
        errors   == lines_with(ERROR, lines)
        warnings == lines_with(WARN, lines)
        lowered  == str_lower(log_text)
        shown(ls) == [k \in 1..Len(first(ls, 3)) |-> strip(ls[k])]
        more(ls)  == IF Len(ls) > 3 THEN Len(ls) - 3 ELSE 0
    IN  AiText(Magnifier, "Local Root Cause Analysis Engine",
            IF errors # <<>>
            THEN [section |-> "Critical Issues Found", count |-> Len(errors),
                  shown |-> shown(errors), more |-> more(errors),
                  causes |-> {w \in {<<"t", "i", "m", "e", "o", "u", "t">>, <<"m", "e", "m", "o", "r", "y">>, <<"c", "o", "n", "n", "e", "c", "t", "i", "o", "n">>} : str_in(w, lowered)},
                  checklist |-> "Immediate Actions"]
            ELSE IF warnings # <<>>
            THEN [section |-> "Warning Conditions", count |-> Len(warnings),
                  shown |-> shown(warnings), more |-> more(warnings),
                  causes |-> {}, checklist |-> "Preventive Actions"]
            ELSE [section |-> "System Operating Normally", count |-> 0,
                  shown |-> <<>>, more |-> 0,
                  causes |-> {}, checklist |-> "Optimization Opportunities"])

\* the texts of the two views that differ by intent
AnalysisField(intent) == IF intent = "summarize" THEN "summary" ELSE "analysis"

NoLogsAvailable(intent) ==
    AiText(CrossMark,
           IF intent = "summarize" THEN "No logs available to summarize."
           ELSE "No logs available for root cause analysis.", <<>>)

LocalModel(intent) ==
    IF intent = "summarize" THEN "LogOps Pattern Analysis Engine" ELSE "LogOps RCA Engine"

\* a view that takes every text as analyzable
analyzable_always(log_text) == TRUE

\* not (not log_text or log_text in [placeholders])
analyzable(log_text) == truthy(log_text) /\ log_text \notin Placeholders

\* a view that tries the remote model whatever the key and the caller say
remote_wanted_always(key, use_together) == TRUE

\* TOGETHER_API_KEY and use_together
remote_wanted(key, use_together) ==
    truthy(key) /\ str_lower(post_get(use_together, <<"t", "r", "u", "e">>)) = <<"t", "r", "u", "e">>

\* a view that returns whatever the remote call returned
remote_accepted_always(text) == TRUE

\* a view that never takes what the remote call returned
remote_accepted_never(text) == FALSE

\* together_summary and not together_summary.startswith(cross mark)
remote_accepted(text) == text # AiText("", "", <<>>) /\ ~startswith(text, CrossMark)

\* The body shared by summarize_logs and analyze_logs, which differ in the
\* remote call, the local analyzer and the texts: the answer and the calls
\* made when the remote call, if made, ends with outcome o.  Neither local
\* analyzer raises, so the except branch of the views is never taken.
analysis_view(intent, rq, key, o) ==
    LET log_text == strip(post_get(rq.log_text, <<>>))
        remote   == IF intent = "summarize"
                    THEN get_together_ai_summary(log_text, o)
                    ELSE get_together_ai_analysis(log_text, o)
        local    == IF intent = "summarize"
                    THEN generate_local_summary(log_text)
                    ELSE generate_local_rca(log_text)
        fallback(cs) ==
            [resp  |-> AnalysisResponse(AnalysisField(intent), local, "local_ai",
                                        LocalModel(intent)),
             calls |-> cs \o <<Call("local", <<intent, log_text>>, "ok")>>]
    IN
    IF ~analyzable(log_text)
    THEN [resp  |-> AnalysisResponse(AnalysisField(intent), NoLogsAvailable(intent),
                                     "<absent>", "<absent>"),
          calls |-> <<>>]
    ELSE IF remote_wanted(key, rq.use_together)
    THEN IF remote_accepted(remote.text)
         THEN [resp  |-> AnalysisResponse(AnalysisField(intent), remote.text,
                                          "together_ai", "meta-llama/Llama-3-8b-chat-hf"),
               calls |-> remote.calls]
         ELSE fallback(remote.calls)
    ELSE fallback(<<>>)

\* every way summarize_logs can answer
summarize_logs(rq, key) == {analysis_view("summarize", rq, key, o) : o \in RemoteOutcomes}

\* every way analyze_logs can answer
analyze_logs(rq, key) == {analysis_view("analyze", rq, key, o) : o \in RemoteOutcomes}

\* TOGETHER_API_KEY: not configured, configured empty, or configured
ApiKeys == {None, <<>>, <<"k", "e", "y">>}

\* the words analysis texts are made of
Words == {ERROR, WARN, INFO, <<"\n">>, <<" ">>, <<"E", "R", "R">>, <<"O", "R">>, <<"T", "i", "m", "e", "o", "u", "t">>}

\* texts of at most n words
RECURSIVE TextsOf(_)
TextsOf(n) ==
    IF n = 0 THEN {<<>>}
    ELSE TextsOf(n - 1) \cup {t \o w : t \in TextsOf(n - 1), w \in Words}

\* a text of n characters
Fill(n) == [i \in 1..n |-> IF i = n THEN "z" ELSE "a"]

\* longest text sent whole, and the shortest one truncated
LongTexts == {Fill(MAX_ANALYSIS_CHARS), Fill(MAX_ANALYSIS_CHARS + 1)}

MaxWords == 2

AnalysisTexts ==
    TextsOf(MaxWords) \cup LongTexts \cup Placeholders
        \cup {<<" ">> \o FetchingPodLogs \o <<"\n">>, None}

UseTogether ==
    {None, <<"t", "r", "u", "e">>, <<"T", "r", "u", "e">>, <<"f", "a", "l", "s", "e">>}

AnalysisRequests(intent) ==
    {AnalysisRequest(intent, t, u) : t \in AnalysisTexts, u \in UseTogether}

AiIdle == [key |-> None, req |-> NoAnalysisRequest, resp |-> NoAnalysisResponse, calls |-> <<>>]

SummarizeLogs ==
    /\ ai.req = NoAnalysisRequest
    /\ \E rq \in AnalysisRequests("summarize") :
         \E r \in summarize_logs(rq, ai.key) :
            ai' = [ai EXCEPT !.req = rq, !.resp = r.resp, !.calls = r.calls]
    /\ UNCHANGED <<cache, store, clock, nreq, req, resp, calls, norm, svc, files, fn, threads>>

AnalyzeLogs ==
    /\ ai.req = NoAnalysisRequest
    /\ \E rq \in AnalysisRequests("analyze") :
         \E r \in analyze_logs(rq, ai.key) :
            ai' = [ai EXCEPT !.req = rq, !.resp = r.resp, !.calls = r.calls]
    /\ UNCHANGED <<cache, store, clock, nreq, req, resp, calls, norm, svc, files, fn, threads>>

----------------------------------------------------------------------------
(* Store adapter in detail: the query search_logs builds, the page the     *)
(* store answers with, and the result handed back.                         *)

\* an int parameter that is not in the dict
Absent == -1

\* query_params of search_logs; a key that is absent holds None (Absent
\* for page and size)
QueryParams(app, cluster, bundle, pod, log_level, search_text, page, size) ==
    [application |-> app, cluster |-> cluster, bundle |-> bundle, pod |-> pod,
     log_level |-> log_level, search_text |-> search_text, page |-> page, size |-> size]

\* a stored log entry with the id and the timestamp the store keeps for it
LogDoc(id, app, cluster, bundle, pod, log_level, log_message, ts) ==
    [id |-> id, application |-> app, cluster |-> cluster, bundle |-> bundle,
     pod |-> pod, log_level |-> log_level, log_message |-> log_message, ts |-> ts]

\* the fields that get an exact-match clause, in the order of the loop
TermFields == <<"application", "cluster", "bundle", "pod", "log_level">>

\* a clause of the bool query: a term clause on <field>.keyword, or a
\* multi_match clause over the message fields
Clause(kind, fields, value) == [kind |-> kind, fields |-> fields, value |-> value]

\* the default page size
DEFAULT_SEARCH_SIZE == 100

\* a query that keeps the empty bool query when nothing is asked for
search_query_without_match_all(query_params) ==
    LET present == SelectSeq(TermFields, LAMBDA f : truthy(query_params[f]))
        terms == [k \in 1..Len(present) |->
                    Clause("term", {<<present[k], "keyword">>}, query_params[present[k]])]
        text == IF truthy(query_params.search_text)
                THEN <<Clause("multi_match", {<<"log_message", "">>, <<"message", "">>},
                              query_params.search_text)>>
                ELSE <<>>
    IN  [query |-> [kind |-> "bool", must |-> terms \o text],
         size  |-> IF query_params.size = Absent THEN DEFAULT_SEARCH_SIZE
                   ELSE query_params.size,
         sort  |-> <<[field |-> "@timestamp", order |-> "desc"]>>]

\* The search request body.  A field of a clause is <<name, sub-field>>.
\* The body has the keys query, size and sort and no other.
search_query(query_params) ==
    LET present == SelectSeq(TermFields, LAMBDA f : truthy(query_params[f]))
        terms == [k \in 1..Len(present) |->
                    Clause("term", {<<present[k], "keyword">>}, query_params[present[k]])]
        text == IF truthy(query_params.search_text)
                THEN <<Clause("multi_match", {<<"log_message", "">>, <<"message", "">>},
                              query_params.search_text)>>
                ELSE <<>>
        must == terms \o text
    IN  [query |-> IF must = <<>> THEN [kind |-> "match_all", must |-> <<>>]
                   ELSE [kind |-> "bool", must |-> must],
         size  |-> IF query_params.size = Absent THEN DEFAULT_SEARCH_SIZE
                   ELSE query_params.size,
         sort  |-> <<[field |-> "@timestamp", order |-> "desc"]>>]

\* whether the store takes document d to satisfy a clause: the keyword
\* sub-field holds the value as stored; a text matches a message field
\* that contains it
satisfies(d, clause) ==
    IF clause.kind = "term"
    THEN \A f \in clause.fields : d[f[1]] = clause.value
    ELSE str_in(clause.value, d.log_message)

\* the documents a query matches.  The store answers a bool query with an
\* empty 'must' list with every document, as it does match_all.
matching(st, query) ==
    {d \in st : \A k \in 1..Len(query.query.must) : satisfies(d, query.query.must[k])}

\* documents in descending order of timestamp
ranked(D) ==
    [k \in 1..Cardinality(D) |->
        CHOOSE d \in D : Cardinality({e \in D : e.ts > d.ts}) = k - 1]

\* the hits of the store's answer: the body names no offset, so the store
\* starts at the first match and returns at most 'size' of them
hits_of(st, query) == first(ranked(matching(st, query)), query.size)

\* the dict search_logs returns; page and size are Absent and error is ""
\* when the dict has no such key
SearchResult(logs, total, page, size, error) ==
    [logs |-> logs, total |-> total, page |-> page, size |-> size, error |-> error]

\* every way search_logs(query_params) can end: the dict returned and the
\* requests sent
search_logs_result(st, query_params) ==
    LET query == search_query(query_params)
        logs  == hits_of(st, query)
    IN  UNION {
        IF ~is_available(h)
        THEN {[result |-> SearchResult(<<>>, 0, Absent, Absent, "Elasticsearch not available"),
               sent   |-> <<Call("health", <<>>, h)>>]}
        ELSE {[result |->
                 IF o = "200"
                 THEN SearchResult(logs, Cardinality(matching(st, query)),
                                   IF query_params.page = Absent THEN 1 ELSE query_params.page,
                                   Len(logs), "")
                 ELSE SearchResult(<<>>, 0, Absent, Absent, "search failed"),
               sent |-> <<Call("health", <<>>, h), Call("search", query, o)>>]
                : o \in PostOutcomes}
        : h \in ProbeOutcomes}

\* the calls of the adapter under test
AdapterCall(op, arg) == [op |-> op, arg |-> arg]

EsIdle == [call |-> AdapterCall("none", <<>>), result |-> <<>>, sent |-> <<>>]

Retry == <<"r", "e", "t", "r", "y">>

\* documents of the index, with distinct timestamps
StoreDocs ==
    {LogDoc(1, FOBPM, ClusterProdAKS1, IOTSubscription, web1, INFO, <<"o", "k">>, 10),
     LogDoc(2, FOBPM, ClusterProdAKS1, IOTSubscription, web1, ERROR, Retry, 20),
     LogDoc(3, FOBPM, ClusterProdAKS1, IOTSubscription, web1, ERROR, Retry \o <<"!">>, 30),
     LogDoc(4, BUSINESSRULES, ClusterProdAKS1, IOTSubscription, web1, WARN, <<"o", "k">>, 40)}

\* entries handed to bulk_index_logs
NewDocs ==
    {LogDoc(5, FOBPM, cluster1, iotsubscription, Web1, INFO, <<"o", "k">>, 50),
     LogDoc(6, FOBPM, cluster1, iotsubscription, Web1, ERROR, Retry, 60)}

MaxPage == 2

MaxSize == 2

SearchParams ==
    {QueryParams(a, c, b, p, l, t, page, size) :
        a \in {None, <<>>, FOBPM}, c \in {None, ClusterProdAKS1},
        b \in {None, IOTSubscription}, p \in {None, web1}, l \in {None, ERROR},
        t \in {None, <<>>, Retry},
        page \in {Absent} \cup 1..MaxPage, size \in {Absent} \cup 1..MaxSize}

IsAvailable ==
    /\ svc.call.op = "none"
    /\ \E h \in ProbeOutcomes :
         svc' = [call   |-> AdapterCall("is_available", <<>>),
                result |-> is_available(h),
                sent   |-> <<Call("health", <<>>, h)>>]
    /\ UNCHANGED <<cache, store, clock, nreq, req, resp, calls, norm, ai, files, fn, threads>>

SearchLogs ==
    /\ svc.call.op = "none"
    /\ \E query_params \in SearchParams :
         \E r \in search_logs_result(store, query_params) :
            svc' = [call   |-> AdapterCall("search_logs", query_params),
                   result |-> r.result,
                   sent   |-> r.sent]
    /\ UNCHANGED <<cache, store, clock, nreq, req, resp, calls, norm, ai, files, fn, threads>>

BulkIndexLogs ==
    /\ svc.call.op = "none"
    /\ \E logs \in SUBSET NewDocs :
         \E r \in bulk_index_logs(store, logs) :
            /\ svc' = [call   |-> AdapterCall("bulk_index_logs", logs),
                      result |-> [indexed |-> r.indexed, errors |-> r.errors],
                      sent   |-> r.calls]
            /\ store' = r.store
    /\ UNCHANGED <<cache, clock, nreq, req, resp, calls, norm, ai, files, fn, threads>>

----------------------------------------------------------------------------
\* the states of the two fallback files of the filter FOBPM, iotsubscription
FileStates ==
    {[name \in {simple_log_name(FOBPM, iotsubscription) : x \in {simple} \ {"absent"}}
               \cup {log_file_name(FOBPM, iotsubscription, 0) : x \in {stamped} \ {"absent"}}
        |-> IF name = simple_log_name(FOBPM, iotsubscription) THEN simple ELSE stamped]
        : simple \in FileOutcomes, stamped \in {"absent", "content", "io_error"}}

\* no function under test has been called
FnIdle ==
    [name |-> "idle", args |-> <<>>, now |-> 0, rnd |-> <<>>, result |-> <<>>,
     calls |-> <<>>]

\* what a call of a function under test leaves: its arguments, the time of
\* the call, the random run it drew from, its result and the calls it made
FnCall(name, args, now, rnd, result, cs) ==
    [name |-> name, args |-> args, now |-> now, rnd |-> rnd, result |-> result,
     calls |-> cs]

\* no request is in flight
NoThreads == <<>>

\* bounds of the model
MaxRequests == 2

MaxClock == 120

TickSteps == {30, 90}

----------------------------------------------------------------------------
(* Specifications.                                                         *)

ResolverIdle ==
    /\ cache = {}
    /\ store \in SUBSET SeedDocs
    /\ clock = 0
    /\ nreq = 0
    /\ req = NoRequest
    /\ resp = NoResponse
    /\ calls = <<>>

Init ==
    /\ ResolverIdle
    /\ norm = NormIdle
    /\ ai = AiIdle
    /\ svc = EsIdle
    /\ files = NoFiles
    /\ fn = FnIdle
    /\ threads = NoThreads

GetPodLogs ==
    /\ nreq < MaxRequests
    /\ \E rq \in PodLogsRequests :
         \E r \in get_pod_logs(rq, cache, store, clock) :
            /\ req' = rq
            /\ resp' = r.resp
            /\ calls' = r.calls
            /\ cache' = r.cache
            /\ store' = r.store
    /\ nreq' = nreq + 1
    /\ UNCHANGED <<clock, norm, ai, svc, files, fn, threads>>

GetPods ==
    /\ nreq < MaxRequests
    /\ \E rq \in PodsRequests :
         \E r \in get_pods(rq, cache, store, clock) :
            /\ req' = rq
            /\ resp' = r.resp
            /\ calls' = r.calls
            /\ cache' = r.cache
            /\ store' = r.store
    /\ nreq' = nreq + 1
    /\ UNCHANGED <<clock, norm, ai, svc, files, fn, threads>>

\* time passes between requests; the last response has been delivered
Tick ==
    /\ \E d \in TickSteps :
         /\ clock + d <= MaxClock
         /\ clock' = clock + d
    /\ req' = NoRequest
    /\ resp' = NoResponse
    /\ calls' = <<>>
    /\ UNCHANGED <<cache, store, nreq, norm, ai, svc, files, fn, threads>>

Next == GetPodLogs \/ GetPods \/ Tick

Spec == Init /\ [][Next]_vars

\* The main page.  The view keeps nothing between requests but the store,
\* so one request is answered from each store the page can meet: any
\* subset of the seed documents, with or without the samples an earlier
\* request indexed for the form's vocabulary.
IndexStores ==
    {seed \cup samples :
        seed \in SUBSET SeedDocs,
        samples \in {{}, generate_specific_sample_logs(FOBPM, cluster1, iotsubscription)}}

InitIndex ==
    /\ cache = {}
    /\ store \in IndexStores
    /\ clock = 0
    /\ nreq = 0
    /\ req = NoRequest
    /\ resp = NoResponse
    /\ calls = <<>>
    /\ norm = NormIdle
    /\ ai = AiIdle
    /\ svc = EsIdle
    /\ files \in FileStates
    /\ fn = FnIdle
    /\ threads = NoThreads

Index ==
    /\ req = NoRequest
    /\ \E rq \in IndexRequests :
         \E r \in index(rq, store, clock, files) :
            /\ req' = rq
            /\ resp' = r.resp
            /\ calls' = r.calls
            /\ store' = r.store
            /\ files' = r.files
    /\ nreq' = nreq + 1
    /\ UNCHANGED <<cache, clock, norm, ai, svc, fn, threads>>

NextIndex == Index

SpecIndex == InitIndex /\ [][NextIndex]_vars

\* the normalizer on its own
InitNorm ==
    /\ cache = {}
    /\ store = {}
    /\ clock = 0
    /\ nreq = 0
    /\ req = NoRequest
    /\ resp = NoResponse
    /\ calls = <<>>
    /\ norm \in [phase : {"input"},
                 input : NormApps \X NormClusters \X NormBundles \X NormPods,
                 once  : {<<>>},
                 twice : {<<>>}]
    /\ ai = AiIdle
    /\ svc = EsIdle
    /\ files = NoFiles
    /\ fn = FnIdle
    /\ threads = NoThreads

NextNorm == Normalize \/ NormalizeAgain

SpecNorm == InitNorm /\ [][NextNorm]_vars

\* the analysis engine on its own: one request is answered under each
\* configuration of the key; the views keep nothing between requests
InitAnalysis ==
    /\ ResolverIdle
    /\ store = {}
    /\ norm = NormIdle
    /\ svc = EsIdle
    /\ files = NoFiles
    /\ fn = FnIdle
    /\ threads = NoThreads
    /\ ai \in [key : ApiKeys, req : {NoAnalysisRequest}, resp : {NoAnalysisResponse},
               calls : {<<>>}]

NextAnalysis == SummarizeLogs \/ AnalyzeLogs

SpecAnalysis == InitAnalysis /\ [][NextAnalysis]_vars

\* the store adapter on its own: one call on each index
InitStore ==
    /\ cache = {}
    /\ store \in SUBSET StoreDocs
    /\ clock = 0
    /\ nreq = 0
    /\ req = NoRequest
    /\ resp = NoResponse
    /\ calls = <<>>
    /\ norm = NormIdle
    /\ ai = AiIdle
    /\ svc = EsIdle
    /\ files = NoFiles
    /\ fn = FnIdle
    /\ threads = NoThreads

NextStore == IsAvailable \/ SearchLogs \/ BulkIndexLogs

SpecStore == InitStore /\ [][NextStore]_vars

----------------------------------------------------------------------------
(* The three resolvers over every state of the fallback files: one request *)
(* on each store and each directory of log files.                          *)

InitTiers ==
    /\ ResolverIdle
    /\ norm = NormIdle
    /\ ai = AiIdle
    /\ svc = EsIdle
    /\ files \in FileStates
    /\ fn = FnIdle
    /\ threads = NoThreads

ResolvePodLogs == req = NoRequest /\ GetPodLogs

ResolvePods == req = NoRequest /\ GetPods

NextTiers == Index \/ ResolvePodLogs \/ ResolvePods

SpecTiers == InitTiers /\ [][NextTiers]_vars

----------------------------------------------------------------------------
(* The two-stage search on its own: one call on each store.                *)

\* filters the mapping changes, one it leaves as it is, one nothing is
\* stored for
LookupFilters ==
    {<<FOBPM, cluster1, iotsubscription>>,
     <<FOBPM, Cluster1, iotsubscription>>,
     <<FOBPM, ClusterProdAKS1, IOTSubscription>>,
     <<FOBPM, cluster1, payments>>}

InitLookup ==
    /\ ResolverIdle
    /\ norm = NormIdle
    /\ ai = AiIdle
    /\ svc = EsIdle
    /\ files = NoFiles
    /\ fn = FnIdle
    /\ threads = NoThreads

GetLogsFromElasticsearchEnhanced ==
    /\ fn.name = "idle"
    /\ \E flt \in LookupFilters :
         \E r \in get_logs_from_elasticsearch_enhanced(store, flt[1], flt[2], flt[3]) :
            fn' = FnCall("get_logs_from_elasticsearch_enhanced", flt, clock, <<>>,
                         [logs |-> r.logs, error |-> r.error, searched |-> r.searched],
                         r.calls)
    /\ UNCHANGED <<cache, store, clock, nreq, req, resp, calls, norm, ai, svc, files, threads>>

NextLookup == GetLogsFromElasticsearchEnhanced

SpecLookup == InitLookup /\ [][NextLookup]_vars

----------------------------------------------------------------------------
(* Concurrent requests.  Each request runs in a worker thread of its own;  *)
(* the threads share the cache (LocMemCache, one lock around every get and *)
(* set) and the store.  A handler is split at its cache calls: taking the  *)
(* lock, cache.get under the lock, the tiers between cache.get and         *)
(* cache.set, taking the lock again, cache.set under the lock.             *)

Threads == {1, 2}

\* the pod-list and pod-logs requests with all required parameters
ConcRequests ==
    {rq \in PodsRequests :
        all_truthy(<<strip(rq.application), strip(rq.cluster), strip(rq.bundle)>>)}
    \cup
    {rq \in PodLogsRequests :
        all_truthy(<<strip(rq.application), strip(rq.cluster), strip(rq.bundle),
                     strip(rq.pod)>>)}

handler(rq, c, st, now) ==
    IF rq.op = "get_pods" THEN get_pods(rq, c, st, now) ELSE get_pod_logs(rq, c, st, now)

\* the cache key the handler builds for the request
cache_key_of(rq) ==
    IF rq.op = "get_pods"
    THEN cache_key_pods(strip(rq.application), strip(rq.cluster), strip(rq.bundle))
    ELSE cache_key_pod_logs(strip(rq.application), strip(rq.cluster), strip(rq.bundle),
                            strip(rq.pod))

\* 'if cached_pods:' / 'if cached_logs:'
cached_truthy(rq, c, now) ==
    IF rq.op = "get_pods"
    THEN cache_get(c, cache_key_of(rq), now).pods # {}
    ELSE payload_truthy(cache_get(c, cache_key_of(rq), now).logs)

\* no entry to write
NoEntry == [key |-> <<>>, value |-> NoValue, expires |-> 0, written |-> 0, writer |-> <<>>]

\* a thread: where it is in its handler, its request, the entry it resolved
\* for cache.set, its response and the calls it made after cache.get
Thread(pc, rq, entry, r, cs) ==
    [pc |-> pc, req |-> rq, entry |-> entry, resp |-> r, calls |-> cs]

\* lock is the thread inside a cache call, 0 if there is none
InitConc ==
    /\ ResolverIdle
    /\ norm = NormIdle
    /\ ai = AiIdle
    /\ svc = EsIdle
    /\ files = NoFiles
    /\ fn = FnIdle
    /\ threads = [lock |-> 0,
                  th |-> [t \in Threads |-> Thread("idle", NoRequest, NoEntry, NoResponse, <<>>)]]

\* the thread after the step
Moved(t, thread, lock) == [lock |-> lock, th |-> [threads.th EXCEPT ![t] = thread]]

\* a request arrives, passes validation and enters cache.get
EnterCacheGet(t) ==
    /\ threads.th[t].pc = "idle"
    /\ threads.lock = 0
    /\ \E rq \in ConcRequests :
         threads' = Moved(t, Thread("get", rq, NoEntry, NoResponse, <<>>), t)
    /\ UNCHANGED <<cache, store, clock, nreq, req, resp, calls, norm, ai, svc, files, fn>>

\* cache.get under the lock: a hit is the response, a miss goes on to
\* the tiers; the lock is released on return
CacheGet(t) ==
    LET me == threads.th[t]
    IN  /\ me.pc = "get"
        /\ threads.lock = t
        /\ cache' = cache_after_get(cache, cache_key_of(me.req), clock)
        /\ IF cached_truthy(me.req, cache, clock)
           THEN \E r \in handler(me.req, cache, store, clock) :
                    threads' = Moved(t, Thread("done", me.req, NoEntry, r.resp, <<>>), 0)
           ELSE threads' = Moved(t, Thread("resolve", me.req, NoEntry, NoResponse, <<>>), 0)
        /\ UNCHANGED <<store, clock, nreq, req, resp, calls, norm, ai, svc, files, fn>>

\* the tiers between cache.get and cache.set: what the handler does on a
\* miss, with the store as it is now
ResolveTiers(t) ==
    LET me == threads.th[t]
    IN  /\ me.pc = "resolve"
        /\ \E r \in handler(me.req, {}, store, clock) :
             /\ store' = r.store
             /\ threads' = Moved(t, Thread("resolved", me.req,
                                           CHOOSE e \in r.cache : TRUE, r.resp,
                                           r.calls),
                                 threads.lock)
        /\ UNCHANGED <<cache, clock, nreq, req, resp, calls, norm, ai, svc, files, fn>>

EnterCacheSet(t) ==
    LET me == threads.th[t]
    IN  /\ me.pc = "resolved"
        /\ threads.lock = 0
        /\ threads' = Moved(t, [me EXCEPT !.pc = "set"], t)
        /\ UNCHANGED <<cache, store, clock, nreq, req, resp, calls, norm, ai, svc, files, fn>>

\* cache.set under the lock; the lock is released on return and the
\* response is sent
CacheSet(t) ==
    LET me == threads.th[t]
    IN  /\ me.pc = "set"
        /\ threads.lock = t
        /\ cache' = cache_set(cache, me.entry.key, me.entry.value,
                              me.entry.expires - me.entry.written, clock, me.entry.writer)
        /\ threads' = Moved(t, [me EXCEPT !.pc = "done"], 0)
        /\ UNCHANGED <<store, clock, nreq, req, resp, calls, norm, ai, svc, files, fn>>

NextConc ==
    \E t \in Threads :
        \/ EnterCacheGet(t)
        \/ CacheGet(t)
        \/ ResolveTiers(t)
        \/ EnterCacheSet(t)
        \/ CacheSet(t)

SpecConc == InitConc /\ [][NextConc]_vars

----------------------------------------------------------------------------
(* The generators of synthetic logs on their own: one call each.           *)

\* pod names with 'error', with 'warn', with both, with neither
GenPods ==
    {web1,
     <<"a","p","i","-","e","r","r","o","r","-","1">>,
     <<"E","R","R","O","R">>,
     <<"a","p","i","-","w","a","r","n","-","1">>,
     <<"W","a","r","n","i","n","g">>,
     <<"w","a","r","n","-","e","r","r","o","r","-","1">>,
     <<"e","r","r","o","r","-","w","a","r","n">>}

GenFilters == {<<FOBPM, cluster1, iotsubscription>>, <<FOBPM, Cluster1, BUSINESSRULES>>}

GenClocks == {0, 7200}

\* the random runs of the model: three entry counts, the first draws of the
\* minute, second, level and message, and the step between the draws
RandomRuns ==
    {Draws(log_count, minutes, seconds, level, message, step)
        : log_count \in {<<20, 20, 20>>, <<20, 25, 30>>, <<30, 30, 30>>},
          minutes \in {0, 119, 120}, seconds \in {0, 59}, level \in 0..2,
          message \in {0, 5}, step \in {0, 1, 7}}

InitGen ==
    /\ cache = {}
    /\ store = {}
    /\ clock \in GenClocks
    /\ nreq = 0
    /\ req = NoRequest
    /\ resp = NoResponse
    /\ calls = <<>>
    /\ norm = NormIdle
    /\ ai = AiIdle
    /\ svc = EsIdle
    /\ files = NoFiles
    /\ fn = FnIdle
    /\ threads = NoThreads

AutoGeneratePodLogs ==
    /\ fn.name = "idle"
    /\ \E flt \in GenFilters, pod \in GenPods :
         fn' = FnCall("auto_generate_pod_logs", flt \o <<pod>>, clock, <<>>,
                      auto_generate_pod_logs(flt[1], flt[2], flt[3], pod, clock), <<>>)
    /\ UNCHANGED <<cache, store, clock, nreq, req, resp, calls, norm, ai, svc, files, threads>>

GenerateSpecificSampleLogs ==
    /\ fn.name = "idle"
    /\ \E flt \in GenFilters, rnd \in RandomRuns :
         fn' = FnCall("generate_specific_sample_logs", flt, clock, rnd,
                      generate_specific_sample_entries(flt[1], flt[2], flt[3], clock, rnd),
                      <<>>)
    /\ UNCHANGED <<cache, store, clock, nreq, req, resp, calls, norm, ai, svc, files, threads>>

NextGen == AutoGeneratePodLogs \/ GenerateSpecificSampleLogs

SpecGen == InitGen /\ [][NextGen]_vars

----------------------------------------------------------------------------
(* Vocabulary of the properties.                                           *)

\* a request has been answered in this state
Answered == req.op # "none"

\* the parameter is empty or consists of whitespace only
Blank(s) == \A i \in 1..Len(s) : s[i] \in Whitespace

\* the parameters the operation requires
Required(rq) ==
    IF rq.op = "get_pod_logs"
    THEN <<rq.application, rq.cluster, rq.bundle, rq.pod>>
    ELSE <<rq.application, rq.cluster, rq.bundle>>

Complete(rq) == \A i \in 1..Len(Required(rq)) : ~Blank(Required(rq)[i])

CountOp(cs, op) == Cardinality({i \in 1..Len(cs) : cs[i].op = op})

MakesCall(cs, ops) == \E i \in 1..Len(cs) : cs[i].op \in ops

\* the step answers a pod-list or pod-logs request
AnswersCached == nreq' = nreq + 1 /\ req'.op \in {"get_pods", "get_pod_logs"}

\* the filter of a request after stripping; a pod list has no pod
Filter(rq) ==
    IF rq.op = "get_pod_logs"
    THEN <<strip(rq.application), strip(rq.cluster), strip(rq.bundle), strip(rq.pod)>>
    ELSE <<strip(rq.application), strip(rq.cluster), strip(rq.bundle), None>>

Normalized(f) == map_frontend_to_elasticsearch_values(f[1], f[2], f[3], f[4])

KeyOf(rq) ==
    LET f == Filter(rq)
    IN  IF rq.op = "get_pod_logs"
        THEN cache_key_pod_logs(f[1], f[2], f[3], f[4])
        ELSE cache_key_pods(f[1], f[2], f[3])

\* the entries of cache c a read of key at time now would return
Fresh(c, key, now) == {e \in c : e.key = key /\ now < e.expires}

----------------------------------------------------------------------------
(* Properties.                                                             *)

\* C1: a pod-list request missing application, cluster or bundle, and a
\* pod-logs request missing application, cluster, bundle or pod (empty or
\* whitespace only), is rejected with 'Missing required parameters' and
\* has made no call at all: no cache read, no store call, no generation;
\* cache and store are left as they were.
C1_MissingParametersRejectedFirst ==
    [][(AnswersCached /\ ~Complete(req'))
        => /\ resp'.status = 400
           /\ resp'.error = "Missing required parameters"
           /\ calls' = <<>>
           /\ cache' = cache
           /\ store' = store]_vars

\* a pod-logs request whose only missing parameter is a whitespace-only pod
\* has been rejected
C1_Witness ==
    /\ req.op = "get_pod_logs"
    /\ ~Blank(req.application) /\ ~Blank(req.cluster) /\ ~Blank(req.bundle)
    /\ req.pod # <<>> /\ Blank(req.pod)
    /\ resp.status = 400

\* C2: when the cache holds a fresh entry under the key of a valid
\* pod-list or pod-logs request, the response carries exactly the cached
\* value and the request makes no store call and no generation.
C2_FreshEntryServedWithoutStoreCall ==
    [][(AnswersCached /\ Complete(req'))
        => \A e \in Fresh(cache, KeyOf(req'), clock) :
              /\ resp'.status = 200
              /\ resp'.logs = e.value.logs
              /\ resp'.pods = e.value.pods
              /\ ~MakesCall(calls', StoreOps \cup GenerateOps)
              /\ store' = store]_vars

\* a pod-logs request has been served from the cache
C2_Witness ==
    /\ req.op = "get_pod_logs"
    /\ calls = <<Call("cache_get", <<KeyOf(req)>>, "hit")>>
    /\ resp.status = 200
    /\ payload_truthy(resp.logs)

\* C3: a valid request (pod list, pod logs, main page) is never answered
\* with an error, whatever the store does: the response has status 200, no
\* error, and a non-empty payload that is not an error message.
C3_ValidRequestNeverAnsweredWithError ==
    (Answered /\ Complete(req))
        => /\ resp.status = 200
           /\ resp.error = ""
           /\ req.op = "get_pods" => resp.pods # {}
           /\ req.op = "get_pod_logs"
                => payload_truthy(resp.logs) /\ text_truthy(resp.logs.content)
           /\ req.op = "index"
                => /\ text_truthy(resp.log)
                   /\ resp.log.kind \notin
                        {"error-reading-log-file", "error-invalid-characters"}

\* the query a pod-logs search or a pod-list aggregation sends for filter f
QueryOf(rq, f) == IF rq.op = "get_pod_logs" THEN f ELSE <<f[1], f[2], f[3]>>

\* C4: in pod-logs and pod-list resolution, when the query with the mapped
\* values returns no entries and the original values differ from the mapped
\* ones, a second query with the original values follows before any later
\* tier (configuration, generation).
C4_SecondSearchWithOriginalValues ==
    (req.op \in {"get_pods", "get_pod_logs"} /\ Complete(req))
        => \A i \in 1..Len(calls) :
              (/\ calls[i].op \in {"search", "aggregate"}
               /\ calls[i].out = "empty"
               /\ calls[i].arg = QueryOf(req, Normalized(Filter(req)))
               /\ calls[i].arg # QueryOf(req, Filter(req)))
              => \E j \in (i + 1)..Len(calls) :
                    /\ calls[j].op = calls[i].op
                    /\ calls[j].arg = QueryOf(req, Filter(req))
                    /\ \A k \in (i + 1)..(j - 1) :
                          calls[k].op \in StoreOps

\* C5: a valid pod-logs request that is not served from the cache and whose
\* search returns zero matches is answered with a non-empty generated log
\* body marked 'auto-generated', and makes exactly one bulk-index call.
C5_ZeroMatchesGenerateAndIndexOnce ==
    (/\ req.op = "get_pod_logs"
     /\ Complete(req)
     /\ \E i \in 1..Len(calls) : calls[i].op = "search" /\ calls[i].out = "empty")
        => /\ resp.status = 200
           /\ resp.logs.source = "auto-generated"
           /\ resp.logs.content.kind = "generated"
           /\ Len(resp.logs.content.levels) > 0
           /\ CountOp(calls, "bulk") = 1

\* the store answered the search with zero matches and the generated logs
\* were returned after one bulk-index call
C5_Witness ==
    /\ req.op = "get_pod_logs"
    /\ \E i \in 1..Len(calls) : calls[i].op = "search" /\ calls[i].out = "empty"
    /\ resp.logs.source = "auto-generated"
    /\ CountOp(calls, "bulk") = 1

SourceTags == {"elasticsearch", "file", "auto-generated"}

\* C6: every log payload returned for a valid request carries a source tag
\* naming the tier that produced it: the log_source entry of the main page,
\* the Source line of a pod-logs payload.
C6_EveryLogPayloadCarriesItsSource ==
    (Answered /\ Complete(req))
        => /\ req.op = "index" => resp.log_source \in SourceTags
           /\ req.op = "get_pod_logs" => resp.logs.source \in SourceTags

\* C7: normalization is idempotent: applied to its own result it returns
\* that result.
C7_NormalizationIdempotent ==
    norm.phase = "twice" => norm.twice = norm.once

\* the normalizer changed its input and was applied to the result
C7_Witness ==
    /\ norm.phase = "twice"
    /\ norm.once # norm.input

\* C8: a cluster of the cluster table maps to its display name and a
\* bundle whose lower-cased form is in the bundle table to its canonical
\* name; any other cluster or bundle is returned unchanged; the application
\* is returned unchanged; a present pod is lower-cased, an absent one stays
\* absent.
C8_MappingAsTabulated ==
    norm.phase \in {"once", "twice"}
        => LET in  == norm.input
               out == norm.once
           IN  /\ out[1] = in[1]
               /\ \A p \in cluster_mapping : p[1] = in[2] => out[2] = p[2]
               /\ (\A p \in cluster_mapping : p[1] # in[2]) => out[2] = in[2]
               /\ in[2] = cluster1 => out[2] = ClusterProdAKS1
               /\ \A p \in bundle_mapping : p[1] = str_lower(in[3]) => out[3] = p[2]
               /\ (\A p \in bundle_mapping : p[1] # str_lower(in[3])) => out[3] = in[3]
               /\ in[4] = None => out[4] = None
               /\ in[4] # None => out[4] = str_lower(in[4])

\* a table cluster, a bundle spelled in another casing and a pod with capitals
\* have been mapped
C8_Witness ==
    /\ norm.phase = "once"
    /\ norm.input[2] = cluster1
    /\ norm.input[3] = IotSubscription
    /\ norm.input[4] = Web1
    /\ norm.once = <<norm.input[1], ClusterProdAKS1, IOTSubscription, web1>>

\* the requests of the operation of rq
SameOp(rq) == {g \in PodLogsRequests \cup PodsRequests : g.op = rq.op /\ Complete(g)}

StatedTimeout(rq) == IF rq.op = "get_pod_logs" THEN 30 ELSE 120

\* C10: a cached pod-logs payload is served only while younger than 30
\* seconds and a cached pod list only while younger than 120 seconds; the
\* first request that finds the entry expired is a miss: it calls the
\* store and rewrites the entry with the payload it returns and a new
\* lifetime.
C10_ServedOnlyWithinTimeout ==
    [][(AnswersCached /\ Complete(req'))
        => /\ calls'[1].out = "hit"
                => \E e \in cache :
                      /\ e.key = KeyOf(req')
                      /\ clock - e.written < StatedTimeout(req')
           /\ (\E e \in cache :
                  e.key = KeyOf(req') /\ clock - e.written >= StatedTimeout(req'))
                => /\ calls'[1].out = "expired"
                   /\ MakesCall(calls', StoreOps)
                   /\ \E e \in cache' :
                         /\ e.key = KeyOf(req')
                         /\ e.written = clock
                         /\ e.expires = clock + StatedTimeout(req')
                         /\ e.value = CacheValue(resp'.logs, resp'.pods)]_vars

\* a pod list has been resolved again after its entry expired
C10_Witness ==
    /\ req.op = "get_pods"
    /\ calls # <<>> /\ calls[1].out = "expired"
    /\ clock >= 120
    /\ \E e \in cache : e.key = KeyOf(req) /\ e.written = clock

----------------------------------------------------------------------------
(* Vocabulary of the analysis properties.                                  *)

Analyzed == ai.req # NoAnalysisRequest

\* the text of the request after stripping
AnalyzedText == strip(post_get(ai.req.log_text, <<>>))

NothingToAnalyze ==
    AnalyzedText = <<>> \/ AnalyzedText = WaitingForExecution \/ AnalyzedText = FetchingPodLogs

RemoteCalls == {i \in 1..Len(ai.calls) : ai.calls[i].op = "together"}

LocalCalls == {i \in 1..Len(ai.calls) : ai.calls[i].op = "local"}

KeyConfigured == ai.key # None /\ Len(ai.key) > 0

NotOptedOut ==
    \/ ai.req.use_together = None
    \/ str_lower(ai.req.use_together) = <<"t", "r", "u", "e">>

RemoteFailures == {"timeout", "non200", "empty", "unreadable", "exception"}

\* C11: a request whose text is empty after stripping, or is one of the two
\* placeholder texts, is answered with the 'no logs available' text of its
\* intent, without the service keys, and neither the remote model nor the
\* local analyzer is invoked.
C11_NothingToAnalyzeIsRejected ==
    (Analyzed /\ NothingToAnalyze) =>
        /\ ai.calls = <<>>
        /\ ai.resp.text = NoLogsAvailable(ai.req.intent)
        /\ ai.resp.field = AnalysisField(ai.req.intent)
        /\ ai.resp.ai_service = "<absent>"

\* a placeholder text, padded, with the key configured and no opt-out
C11_Witness ==
    /\ Analyzed
    /\ ai.req.intent = "analyze"
    /\ ai.req.log_text = <<" ">> \o FetchingPodLogs \o <<"\n">>
    /\ KeyConfigured /\ NotOptedOut
    /\ ai.resp.text = NoLogsAvailable("analyze")

\* C12: for an analyzable text the remote model is called exactly when the
\* key is configured and the caller has not opted out; otherwise the answer
\* is tagged local_ai.
C12_RemoteOnlyWhenConfiguredAndWanted ==
    (Analyzed /\ ~NothingToAnalyze) =>
        /\ (RemoteCalls # {}) <=> (KeyConfigured /\ NotOptedOut)
        /\ ~(KeyConfigured /\ NotOptedOut) =>
              /\ ai.resp.ai_service = "local_ai"
              /\ ai.resp.model = LocalModel(ai.req.intent)

\* the key is configured and the caller opts out
C12_Witness ==
    /\ Analyzed /\ ~NothingToAnalyze
    /\ KeyConfigured
    /\ ai.req.use_together = <<"f", "a", "l", "s", "e">>
    /\ RemoteCalls = {}
    /\ ai.resp.ai_service = "local_ai"

\* C13: when the remote call fails (timeout, status other than 200, empty
\* or missing content, unreadable body, any exception) the local analyzer
\* runs and its result is returned tagged local_ai; an analyzable text is
\* never answered with an error text; an answer tagged together_ai always
\* comes from a call that returned content.
C13_RemoteFailureFallsBackToLocal ==
    (Analyzed /\ ~NothingToAnalyze) =>
        /\ ai.resp.text.head # CrossMark
        /\ ai.resp.ai_service \in {"together_ai", "local_ai"}
        /\ \A i \in RemoteCalls :
              ai.calls[i].out \in RemoteFailures =>
                 /\ LocalCalls # {}
                 /\ ai.resp.ai_service = "local_ai"
                 /\ ai.resp.text.head \in {BarChart, Magnifier}
        /\ ai.resp.ai_service = "together_ai" =>
              \E i \in RemoteCalls : ai.calls[i].out = "content"

\* the remote model answered 200 with an empty content
C13_Witness ==
    /\ Analyzed /\ ~NothingToAnalyze
    /\ \E i \in RemoteCalls : ai.calls[i].out = "empty"
    /\ LocalCalls # {}
    /\ ai.resp.ai_service = "local_ai"

\* C14: with the key configured, no opt-out and a 200 answer with content,
\* the answer is the remote text tagged together_ai and the local analyzer
\* is not invoked.
C14_RemoteContentReturnedAtOnce ==
    (Analyzed /\ \E i \in RemoteCalls : ai.calls[i].out = "content") =>
        /\ ai.resp.ai_service = "together_ai"
        /\ ai.resp.model = "meta-llama/Llama-3-8b-chat-hf"
        /\ ai.resp.text.head = (IF ai.req.intent = "summarize" THEN RobotFace ELSE Microscope)
        /\ LocalCalls = {}
        /\ Len(ai.calls) = 1

C14_Witness ==
    /\ Analyzed /\ KeyConfigured /\ NotOptedOut
    /\ ai.req.intent = "summarize"
    /\ ai.resp.ai_service = "together_ai"
    /\ ai.resp.text.body = ModelAnswer
    /\ LocalCalls = {}

\* some line of the analyzed text contains the word
SomeLineHas(word) ==
    \E k \in 1..Len(split_lines(AnalyzedText)) : str_in(word, split_lines(AnalyzedText)[k])

\* C15: the status of the local summary is 'errors detected' when a line
\* contains ERROR, else 'warnings present' when a line contains WARN, else
\* 'healthy'; it depends on the text alone.
C15_LocalVerdictPriority ==
    (Analyzed /\ ai.req.intent = "summarize" /\ ai.resp.ai_service = "local_ai") =>
        ai.resp.text.body.status =
            (IF SomeLineHas(ERROR) THEN "ERRORS DETECTED"
             ELSE IF SomeLineHas(WARN) THEN "WARNINGS PRESENT"
             ELSE "HEALTHY")

\* a text with both an ERROR and a WARN line
C15_Witness ==
    /\ Analyzed /\ ai.req.intent = "summarize" /\ ai.resp.ai_service = "local_ai"
    /\ AnalyzedText = WARN \o ERROR
    /\ ai.resp.text.body.status = "ERRORS DETECTED"
    /\ ai.resp.text.body.warn = 1

\* C16: the log text sent to the remote model is the analyzed text when it
\* has at most 8000 characters, and otherwise its first 8000 characters
\* followed by the truncation marker, for both intents.
C16_SentTextBounded ==
    \A i \in RemoteCalls :
        /\ ai.calls[i].arg[1] = ai.req.intent
        /\ ai.calls[i].arg[2] =
              (IF Len(AnalyzedText) <= 8000 THEN AnalyzedText
               ELSE SubSeq(AnalyzedText, 1, 8000) \o TruncationMarker)

\* a text of 8001 characters is sent truncated
C16_Witness ==
    /\ Analyzed
    /\ Len(AnalyzedText) = 8001
    /\ \E i \in RemoteCalls :
          /\ Len(ai.calls[i].arg[2]) = 8000 + Len(TruncationMarker)
          /\ ai.calls[i].arg[2][8000] = "a"

----------------------------------------------------------------------------
(* Vocabulary of the adapter properties.                                   *)

Searched == svc.call.op = "search_logs"

\* the search request body, when one was sent
SearchSent == Searched /\ Len(svc.sent) = 2

SentQuery == svc.sent[2].arg

Given(v) == v # None /\ v # <<>>

ClausesOn(kind, fields) ==
    {k \in 1..Len(SentQuery.query.must) :
        SentQuery.query.must[k].kind = kind /\ SentQuery.query.must[k].fields = fields}

\* C17: the query has one term clause on <field>.keyword for each of
\* application, cluster, bundle, pod, log_level that is given and none for
\* the others, one multi_match clause over log_message and message exactly
\* when a search text is given, no other clause, and a descending sort on
\* @timestamp; with nothing given it is match_all, never an empty bool
\* query.
C17_QueryHasOneClausePerGivenField ==
    SearchSent =>
        /\ \A j \in 1..Len(TermFields) :
              LET f == TermFields[j]
              IN  IF Given(svc.call.arg[f])
                  THEN /\ Cardinality(ClausesOn("term", {<<f, "keyword">>})) = 1
                       /\ \A k \in ClausesOn("term", {<<f, "keyword">>}) :
                             SentQuery.query.must[k].value = svc.call.arg[f]
                  ELSE ClausesOn("term", {<<f, "keyword">>}) = {}
        /\ Cardinality(ClausesOn("multi_match", {<<"log_message", "">>, <<"message", "">>}))
              = (IF Given(svc.call.arg.search_text) THEN 1 ELSE 0)
        /\ \A k \in ClausesOn("multi_match", {<<"log_message", "">>, <<"message", "">>}) :
              SentQuery.query.must[k].value = svc.call.arg.search_text
        /\ Len(SentQuery.query.must) =
              Cardinality({j \in 1..Len(TermFields) : Given(svc.call.arg[TermFields[j]])})
                + (IF Given(svc.call.arg.search_text) THEN 1 ELSE 0)
        /\ SentQuery.sort = <<[field |-> "@timestamp", order |-> "desc"]>>
        /\ SentQuery.query.kind = (IF SentQuery.query.must = <<>> THEN "match_all" ELSE "bool")

\* every field and a search text are given
C17_Witness ==
    /\ SearchSent
    /\ \A j \in 1..Len(TermFields) : Given(svc.call.arg[TermFields[j]])
    /\ Given(svc.call.arg.search_text)
    /\ Len(SentQuery.query.must) = 6

\* the documents of the index the filter of the call selects
Selected ==
    {d \in store :
        /\ \A j \in 1..Len(TermFields) :
              Given(svc.call.arg[TermFields[j]]) => d[TermFields[j]] = svc.call.arg[TermFields[j]]
        /\ Given(svc.call.arg.search_text) => str_in(svc.call.arg.search_text, d.log_message)}

\* the entry of the given rank, the newest first
Ranked(D, k) == CHOOSE d \in D : Cardinality({e \in D : e.ts > d.ts}) = k - 1

\* C18: a search for page p with page size s that the store answers returns
\* the selected entries of ranks (p-1)*s+1 .. min(p*s, N), the newest first,
\* and reports page p and page size s.
C18_PagesAreDisjointSlices ==
    (/\ Searched /\ svc.result.error = ""
     /\ svc.call.arg.page # Absent /\ svc.call.arg.size # Absent) =>
        LET p == svc.call.arg.page
            s == svc.call.arg.size
            N == Cardinality(Selected)
            last == IF p * s < N THEN p * s ELSE N
            from == (p - 1) * s
        IN  /\ Len(svc.result.logs) = (IF last > from THEN last - from ELSE 0)
            /\ \A k \in 1..Len(svc.result.logs) :
                  svc.result.logs[k] = Ranked(Selected, from + k)
            /\ svc.result.page = p
            /\ svc.result.size = s

\* C19: is_available returns a boolean for every outcome of the probe, TRUE
\* exactly when the probe was answered with status 200.
C19_IsAvailableNeverRaises ==
    svc.call.op = "is_available" =>
        /\ svc.result \in BOOLEAN
        /\ svc.result <=> (svc.sent[1].out = "200")
        /\ Len(svc.sent) = 1

\* the probe timed out
C19_Witness ==
    /\ svc.call.op = "is_available"
    /\ svc.sent[1].out = "timeout"
    /\ svc.result = FALSE

----------------------------------------------------------------------------
(* Synthetic logs.                                                         *)

\* the generated text has a line of one of the levels
HasLevel(text, levels) == \E i \in 1..Len(text.levels) : text.levels[i] \in levels

AutoGenerated == fn.name = "auto_generate_pod_logs"

\* the pod name of the call contains the word, in any case
PodNameHas(word) == contains(word, str_lower(fn.args[4]))

\* C21: the auto-generated logs of a pod whose name contains 'error' have
\* at least one ERROR or FATAL line; those of a pod whose name contains
\* 'warn' have at least one WARN line and no ERROR or FATAL line.
C21_LevelsFollowPodName ==
    AutoGenerated =>
        /\ PodNameHas(<<"e","r","r","o","r">>) => HasLevel(fn.result, {"ERROR", "FATAL"})
        /\ PodNameHas(<<"w","a","r","n">>) =>
                /\ HasLevel(fn.result, {"WARN"})
                /\ ~HasLevel(fn.result, {"ERROR", "FATAL"})

SamplesGenerated == fn.name = "generate_specific_sample_logs"

\* the entries of the result that belong to the pod
EntriesOf(pod) == {i \in 1..Len(fn.result) : fn.result[i].pod = pod}

SamplePods == {fn.result[i].pod : i \in 1..Len(fn.result)}

\* the messages of the level's catalogue
Catalogue(level) == {log_messages[level][i] : i \in 1..Len(log_messages[level])}

\* C22: generate_specific_sample_logs gives exactly 3 pods with 20 to 30
\* entries each, 60 to 90 in all; the level of every entry is INFO, WARN or
\* ERROR and its message is of that level's catalogue; every entry carries
\* the application, cluster and bundle of the filter.
C22_SampleLogsShape ==
    SamplesGenerated =>
        /\ Cardinality(SamplePods) = 3
        /\ \A pod \in SamplePods :
                Cardinality(EntriesOf(pod)) >= 20 /\ Cardinality(EntriesOf(pod)) <= 30
        /\ Len(fn.result) >= 60 /\ Len(fn.result) <= 90
        /\ \A i \in 1..Len(fn.result) :
                /\ fn.result[i].log_level \in {"INFO", "WARN", "ERROR"}
                /\ fn.result[i].log_message \in Catalogue(fn.result[i].log_level)
                /\ fn.result[i].application = fn.args[1]
                /\ fn.result[i].cluster = fn.args[2]
                /\ fn.result[i].bundle = fn.args[3]
        /\ {Doc(fn.result[i].application, fn.result[i].cluster, fn.result[i].bundle,
                fn.result[i].pod) : i \in 1..Len(fn.result)}
                = generate_specific_sample_logs(fn.args[1], fn.args[2], fn.args[3])

\* pods of 20, 25 and 30 entries with entries of all three levels
C22_Witness ==
    /\ SamplesGenerated
    /\ Len(fn.result) = 75
    /\ \A l \in {"INFO", "WARN", "ERROR"} :
            \E i \in 1..Len(fn.result) : fn.result[i].log_level = l

\* C23: every sample entry is dated within the two hours before the
\* generation time: now - 2h <= timestamp <= now.
C23_TimestampsWithinLastTwoHours ==
    SamplesGenerated =>
        \A i \in 1..Len(fn.result) :
            /\ fn.now - 7200 <= fn.result[i].timestamp
            /\ fn.result[i].timestamp <= fn.now

----------------------------------------------------------------------------
(* The tiers of a resolution: search store, fallback files, synthesis.     *)

IndexAnswered == req.op = "index" /\ Complete(req)

PodLogsAnswered == req.op = "get_pod_logs" /\ Complete(req)

PodsAnswered == req.op = "get_pods" /\ Complete(req)

\* the state of the exact-name file and of the timestamped file of the
\* filter of the request
SimpleFile == file_state(files, simple_log_name(strip(req.application), strip(req.bundle)))

StampedFile ==
    file_state(files, log_file_name(strip(req.application), strip(req.bundle), clock))

\* the file the fallback opens: the exact-name file if it exists
ConsultedFile == IF SimpleFile # "absent" THEN SimpleFile ELSE StampedFile

Readable == {"content", "empty"}

Unreadable == {"io_error", "decode_error"}

\* the positions of the calls of the operation
CallsOf(op) == {i \in 1..Len(calls) : calls[i].op = op}

\* the request went to the file fallback
FallbackReached == CallsOf("file_read") \cup CallsOf("auto_generate") # {}

\* C24: a fallback file that exists but cannot be read counts as absent: the
\* main page then shows auto-generated logs tagged as such, not the read
\* error.
C24_UnreadableFileCountsAsAbsent ==
    (IndexAnswered /\ FallbackReached /\ ConsultedFile \in Unreadable) =>
        /\ resp.log_source = "auto-generated"
        /\ resp.log.kind = "generated-with-header"

\* a search of the request found entries
SearchFound == \E i \in CallsOf("search") : calls[i].out = "found"

CacheHit == \E i \in CallsOf("cache_get") : calls[i].out = "hit"

\* C25: the file fallback returns the exact-name file if it exists, the
\* timestamped file only if the exact-name file is absent, and generated
\* logs only if neither exists; a pod-logs request whose search found
\* nothing returns the content of such a file, tagged 'file'.
C25_FallbackFilePreferred ==
    /\ (IndexAnswered /\ FallbackReached) =>
        /\ SimpleFile \in Readable =>
                /\ resp.log_source = "file"
                /\ \A i \in CallsOf("file_read") :
                        calls[i].arg = <<simple_log_name(strip(req.application),
                                                        strip(req.bundle))>>
        /\ (SimpleFile = "absent" /\ StampedFile \in Readable) =>
                /\ resp.log_source = "file"
                /\ \A i \in CallsOf("file_read") :
                        calls[i].arg = <<log_file_name(strip(req.application),
                                                      strip(req.bundle), clock)>>
        /\ CallsOf("auto_generate") # {} <=> (SimpleFile = "absent" /\ StampedFile = "absent")
    /\ (PodLogsAnswered /\ ~CacheHit /\ ~SearchFound /\ ConsultedFile = "content") =>
        /\ resp.logs.source = "file"
        /\ resp.logs.content = Text("file", {}, <<>>, 0)

\* C26: no request creates, writes, truncates or deletes a fallback log
\* file: every step leaves the files and their contents as they were.
C26_FilesNeverChanged == [][files' = files]_vars

\* the main page showed generated logs and there is still no file
C26_Witness ==
    /\ IndexAnswered
    /\ resp.log_source = "auto-generated"
    /\ DOMAIN files = {}

\* the positions of the calls of the operation that failed
FailedCalls(op) == {i \in CallsOf(op) : calls[i].out = "failed"}

\* the position of the bulk request of the main page, 0 if there is none
BulkAt == IF CallsOf("bulk") = {} THEN 0 ELSE CHOOSE i \in CallsOf("bulk") : TRUE

\* C27: a resolution makes a bounded number of store calls and repeats no
\* failed call: pod logs at most one probe, one search and one bulk request;
\* a pod list at most one aggregation; the main page each tier at most once
\* and the two-stage search once more after the synthesis; a failed call
\* ends its tier at once.
C27_StoreCallsBounded ==
    /\ PodLogsAnswered =>
        /\ Cardinality(CallsOf("health")) <= 1
        /\ Cardinality(CallsOf("search")) <= 1
        /\ Cardinality(CallsOf("bulk")) <= 1
        /\ FailedCalls("search") # {} => resp.logs.source # "elasticsearch"
    /\ PodsAnswered =>
        /\ Cardinality(CallsOf("aggregate")) <= 1
        /\ CallsOf("search") \cup CallsOf("bulk") = {}
    /\ IndexAnswered =>
        /\ Cardinality(CallsOf("generate_samples")) <= 1
        /\ Cardinality(CallsOf("bulk")) <= 1
        /\ Cardinality(CallsOf("file_read") \cup CallsOf("auto_generate")) <= 1
        /\ Cardinality({i \in CallsOf("search") : BulkAt = 0 \/ i < BulkAt}) <= 2
        /\ Cardinality({i \in CallsOf("search") : BulkAt # 0 /\ i > BulkAt}) <= 2
        /\ \A i, j \in CallsOf("search") :
                (i < j /\ calls[i].arg = calls[j].arg) => (i < BulkAt /\ BulkAt < j)

\* the only search of a pod-logs request failed; the logs were generated
\* and sent to the store
C27_Witness ==
    /\ PodLogsAnswered
    /\ Cardinality(FailedCalls("search")) = 1
    /\ Cardinality(CallsOf("bulk")) = 1
    /\ resp.logs.source = "auto-generated"

\* the first probe of the main page failed
ProbeFailed == calls # <<>> /\ calls[1] = Call("health", <<>>, "down")

\* the position of the synthesis, 0 if there is none
SynthesisAt ==
    IF CallsOf("generate_samples") = {} THEN 0
    ELSE CHOOSE i \in CallsOf("generate_samples") : TRUE

\* the first two-stage search found entries
FirstSearchFound ==
    \E i \in CallsOf("search") :
        calls[i].out = "found" /\ (SynthesisAt = 0 \/ i < SynthesisAt)

\* C30: on the main page, a failed probe leads to the file fallback without
\* search, synthesis or bulk request; after a successful probe and an empty
\* two-stage search the samples are synthesized and sent once and the
\* two-stage search is repeated once; the file fallback is used only if the
\* repeat is empty; a failed bulk request does not prevent a payload.
C30_IndexTierOrder ==
    IndexAnswered =>
        /\ ProbeFailed =>
                /\ CallsOf("search") \cup CallsOf("generate_samples") \cup CallsOf("bulk") = {}
                /\ Len(calls) = 2
                /\ FallbackReached
        /\ (~ProbeFailed /\ ~FirstSearchFound) =>
                /\ Cardinality(CallsOf("generate_samples")) = 1
                /\ Cardinality(CallsOf("bulk")) = 1
                /\ BulkAt = SynthesisAt + 1
                /\ Len(calls) > BulkAt
                /\ calls[BulkAt + 1].op = "health"
                /\ Cardinality({i \in CallsOf("search") : i > BulkAt}) <= 2
                /\ \A i, j \in CallsOf("search") :
                        (BulkAt < i /\ i < j) => calls[i].arg # calls[j].arg
        /\ (~ProbeFailed /\ FirstSearchFound) =>
                /\ CallsOf("generate_samples") \cup CallsOf("bulk") = {}
                /\ ~FallbackReached
        /\ (~ProbeFailed /\ FallbackReached) =>
                /\ BulkAt # 0
                /\ \A i \in CallsOf("search") : calls[i].out # "found"
                /\ \A i \in CallsOf("file_read") \cup CallsOf("auto_generate") : i > BulkAt
        /\ FailedCalls("bulk") # {} =>
                /\ resp.status = 200
                /\ resp.log_source = "elasticsearch" \/ FallbackReached

\* the samples were sent and the repeated search found them
C30_Witness ==
    /\ IndexAnswered
    /\ ~ProbeFailed
    /\ BulkAt # 0
    /\ calls[BulkAt].out = "ok"
    /\ \E i \in CallsOf("search") : i > BulkAt /\ calls[i].out = "found"
    /\ resp.log_source = "elasticsearch"

----------------------------------------------------------------------------
(* The two-stage search.                                                   *)

LookedUp == fn.name = "get_logs_from_elasticsearch_enhanced"

\* the query with the mapped values and the query with the values given
MappedQuery ==
    LET m == map_frontend_to_elasticsearch_values(fn.args[1], fn.args[2], fn.args[3], None)
    IN  <<m[1], m[2], m[3], None>>

OriginalQuery == <<fn.args[1], fn.args[2], fn.args[3], None>>

\* the queries that reached the store, in the order they were sent
QueriesSent ==
    LET S == {i \in 1..Len(fn.calls) : fn.calls[i].op = "search"}
        nth(k) == CHOOSE i \in S : Cardinality({j \in S : j < i}) = k - 1
    IN  [k \in 1..Cardinality(S) |-> fn.calls[nth(k)].arg]

\* C29: the two-stage search asks for the mapped values first and for the
\* original values only if the mapped search returned no entries; a
\* non-empty mapped result is returned without the original search; after
\* a failed first probe nothing is searched; a result without entries has
\* an error entry.
C29_MappedBeforeOriginal ==
    LookedUp =>
        LET sd == fn.result.searched
        IN  /\ fn.calls[1].out = "down" => (sd = <<>> /\ QueriesSent = <<>>)
            /\ fn.calls[1].out = "up" => (Len(sd) >= 1 /\ sd[1].query = MappedQuery)
            /\ Len(sd) <= 2
            /\ Len(sd) = 2 => (sd[1].logs = {} /\ sd[2].query = OriginalQuery)
            /\ (Len(sd) >= 1 /\ sd[1].logs # {}) =>
                    /\ Len(sd) = 1
                    /\ fn.result.logs = sd[1].logs
                    /\ QueriesSent = <<MappedQuery>>
            /\ Len(sd) = 2 => fn.result.logs = sd[2].logs
            /\ Len(QueriesSent) = 2 => QueriesSent = <<MappedQuery, OriginalQuery>>
            /\ fn.result.logs = {} <=> fn.result.error # ""

\* the mapped search returned nothing and the original search found entries
C29_Witness ==
    /\ LookedUp
    /\ MappedQuery # OriginalQuery
    /\ Len(fn.result.searched) = 2
    /\ QueriesSent = <<MappedQuery, OriginalQuery>>
    /\ fn.result.logs # {}
    /\ fn.result.error = ""

----------------------------------------------------------------------------
(* Concurrent requests on the shared cache.                                *)

\* the thread has written its entry
HasSet(t) == threads.th[t].pc = "done" /\ threads.th[t].entry # NoEntry

\* the value the response carries
Delivered(t) ==
    CacheValue(threads.th[t].resp.logs, threads.th[t].resp.pods)

\* C28: under every interleaving of pod-list and pod-logs requests, every
\* cache entry is the whole payload one request resolved for the key it
\* computed, every response is such a cached payload or the payload the
\* request resolved itself, and the lock of the cache is held only inside a
\* cache call, never across the tiers.
C28_CacheNeverCorrupted ==
    /\ \A e \in cache :
            \E t \in Threads :
                /\ HasSet(t)
                /\ e = threads.th[t].entry
                /\ e.key = cache_key_of(threads.th[t].req)
                /\ e.value = Delivered(t)
    /\ \A t \in Threads :
            threads.th[t].pc = "done" =>
                \/ HasSet(t) /\ Delivered(t) = threads.th[t].entry.value
                \/ /\ threads.th[t].entry = NoEntry
                   /\ \E u \in Threads \ {t} :
                        /\ threads.th[u].entry.key = cache_key_of(threads.th[t].req)
                        /\ Delivered(t) = threads.th[u].entry.value
    /\ \A t \in Threads :
            threads.lock = t => threads.th[t].pc \in {"get", "set"}
    /\ \A t \in Threads :
            threads.th[t].pc \in {"resolve", "resolved"} => threads.lock # t

\* both requests missed the same key and resolved different payloads; the
\* cache holds the payload of the one that set last
C28_Witness ==
    /\ HasSet(1) /\ HasSet(2)
    /\ threads.th[1].entry.key = threads.th[2].entry.key
    /\ threads.th[1].entry.value # threads.th[2].entry.value
    /\ \E e \in cache : e = threads.th[1].entry
    /\ \A e \in cache : e # threads.th[2].entry


----------------------------------------------------------------------------
(* Synthetic entries in the store.                                         *)

\* the entry index_generated_logs_to_elasticsearch builds for a request
SyntheticDoc(rq) ==
    Doc(strip(rq.application), strip(rq.cluster), strip(rq.bundle),
        strip(rq.application) \o <<"-">> \o strip(rq.bundle) \o <<"-","p","o","d">>)

\* C31: the entries bulk-indexed for a pod-logs request carry the filter the
\* request searches for, so that once they are in the store an identical
\* request that misses the cache and meets a healthy store is resolved from
\* the store and neither synthesizes nor bulk-indexes again.
C31_SyntheticEntriesIndexedOnce ==
    [][(/\ nreq' = nreq + 1
        /\ req'.op = "get_pod_logs"
        /\ Complete(req')
        /\ SyntheticDoc(req') \in store
        /\ \E i \in 1..Len(calls') : calls'[i].op = "search" /\ calls'[i].out # "failed")
            => /\ CountOp(calls', "bulk") = 0
               /\ CountOp(calls', "auto_generate") = 0
               /\ resp'.logs.source = "elasticsearch"]_vars


----------------------------------------------------------------------------
(* Sources of the pod list.                                                *)

\* the filter the aggregation of the request is sent with
MappedFilter ==
    LET f == Filter(req)
        m == map_frontend_to_elasticsearch_values(f[1], f[2], f[3], None)
    IN  <<m[1], m[2], m[3]>>

\* the pods of the answer whose lower-cased name has the word
PodsNamed(word) == {p \in resp.pods : contains(word, str_lower(p))}

\* C32: a pod list that is not served from the cache is taken from the store
\* aggregation over the mapped filter first, from the pods configuration
\* only when the aggregation gave no pod, and from the sample generator only
\* when the configuration gave none either; the generated list has exactly
\* six pods with one 'error' and one 'warn' demo pod; the list is never
\* empty, and it is written to the cache whichever source produced it.
C32_PodListSourceOrder ==
    PodsAnswered =>
        LET agg == CallsOf("aggregate")
            cfg == CallsOf("config")
            gen == CallsOf("generate_pods")
        IN  /\ resp.pods # {}
            /\ calls[1].op = "cache_get"
            /\ calls[1].out # "hit" =>
                /\ agg = {2} /\ calls[2].arg = MappedFilter
                /\ cfg \subseteq {3} /\ gen \subseteq {4}
                /\ cfg # {} <=> calls[2].out # "found"
                /\ gen # {} <=> (cfg # {} /\ calls[3].out = "empty")
                /\ cfg = {} =>
                    resp.pods = {d.pod : d \in Match(store, <<MappedFilter[1], MappedFilter[2],
                                                               MappedFilter[3], None>>)}
                /\ (cfg # {} /\ gen = {}) => resp.pods = ConfigPods
                /\ gen # {} =>
                    /\ Cardinality(resp.pods) = 6
                    /\ Cardinality(PodsNamed(<<"e","r","r","o","r">>)) = 1
                    /\ Cardinality(PodsNamed(<<"w","a","r","n">>)) = 1
                /\ calls[Len(calls)].op = "cache_set"
                /\ \E e \in cache :
                    /\ e.key = KeyOf(req) /\ e.value.pods = resp.pods
                    /\ e.written = clock /\ e.expires = clock + PODS_CACHE_TIMEOUT
                /\ Cardinality({e \in cache : e.key = KeyOf(req)}) = 1

\* a pod list that came from the sample generator
C32_Witness ==
    /\ PodsAnswered
    /\ CallsOf("generate_pods") # {}
    /\ Cardinality(resp.pods) = 6

\* a pod list that came from the store aggregation
C32_FromStore == PodsAnswered /\ Len(calls) = 3 /\ resp.pods # {}

\* a pod list that came from the pods configuration
C32_FromConfig == PodsAnswered /\ CallsOf("config") # {} /\ resp.pods = ConfigPods


----------------------------------------------------------------------------
(* Provenance of the main page's payload.                                  *)

\* the entries the request synthesized, none if it made no synthesis
SynthesizedHere ==
    IF SynthesisAt = 0 THEN {}
    ELSE generate_specific_sample_logs(strip(req.application), strip(req.cluster),
                                       strip(req.bundle))

\* C38: on the main page a payload tagged 'elasticsearch' never consists of
\* entries the same request synthesized: the store tag always means entries
\* that were in the store before the request.
C38_StoreTagMeansStoredBefore ==
    (IndexAnswered /\ resp.log_source = "elasticsearch")
        => resp.log.hits \cap SynthesizedHere = {}


----------------------------------------------------------------------------
(* Cache keys of filters whose values hold the separator or a character    *)
(* the sanitizer replaces.                                                 *)

KeyApps == {<<"a">>, <<"a","_","b">>, <<"a"," ","b">>}

KeyClusters == {<<"b","_","c">>, <<"c">>}

KeyBundles == {<<"x">>}

KeyPods == {<<"p",".","1">>, <<"p","_","1">>}

KeyPodLogsRequests ==
    {Request("get_pod_logs", a, c, b, p) :
        a \in KeyApps, c \in KeyClusters, b \in KeyBundles, p \in KeyPods}

KeyPodsRequests ==
    {Request("get_pods", a, c, b, <<>>) :
        a \in KeyApps, c \in KeyClusters, b \in KeyBundles}

KeyedPodLogs ==
    /\ nreq < MaxRequests
    /\ \E rq \in KeyPodLogsRequests :
         \E r \in get_pod_logs(rq, cache, store, clock) :
            /\ req' = rq
            /\ resp' = r.resp
            /\ calls' = r.calls
            /\ cache' = r.cache
            /\ store' = r.store
    /\ nreq' = nreq + 1
    /\ UNCHANGED <<clock, norm, ai, svc, files, fn, threads>>

KeyedPods ==
    /\ nreq < MaxRequests
    /\ \E rq \in KeyPodsRequests :
         \E r \in get_pods(rq, cache, store, clock) :
            /\ req' = rq
            /\ resp' = r.resp
            /\ calls' = r.calls
            /\ cache' = r.cache
            /\ store' = r.store
    /\ nreq' = nreq + 1
    /\ UNCHANGED <<clock, norm, ai, svc, files, fn, threads>>

NextKeys == KeyedPodLogs \/ KeyedPods \/ Tick

SpecKeys == Init /\ [][NextKeys]_vars

\* the request was answered from the cache
ServedFromCache ==
    /\ req.op \in {"get_pods", "get_pod_logs"}
    /\ Len(calls) = 1
    /\ calls[1].out = "hit"

\* C36: a cache hit returns the payload stored for exactly the same filter
\* and the same scope: the entry a pod-list or pod-logs request is served
\* from was written by a request of the same kind with the same
\* application, cluster, bundle and pod.
C36_HitServesOwnFilter ==
    ServedFromCache =>
        \A e \in Fresh(cache, KeyOf(req), clock) : e.writer = Filter(req)

\* distinct filters of one scope never share a key
C36_KeysInjective ==
    \A r1, r2 \in KeyPodLogsRequests \cup KeyPodsRequests :
        (r1.op = r2.op /\ KeyOf(r1) = KeyOf(r2)) => Filter(r1) = Filter(r2)

\* a pod-list key never equals a pod-logs key
C36_ScopesDisjoint ==
    \A r1 \in KeyPodsRequests : \A r2 \in KeyPodLogsRequests : KeyOf(r1) # KeyOf(r2)


----------------------------------------------------------------------------
(* Truthiness of cached values.                                            *)

\* the cache entries of pod lists and of pod logs
PodListEntries == {e \in cache : e.writer[4] = None}

PodLogsEntries == {e \in cache : e.writer[4] # None}

\* C40: every value get_pods and get_pod_logs write to the cache is
\* non-empty (a pod list with at least one pod, a payload that is not the
\* empty text), so the truthiness test on the cached value never takes a
\* present, fresh entry for a miss: a request that finds one makes no
\* further call.
C40_CachedValuesNonEmpty ==
    /\ \A e \in PodListEntries : e.value.pods # {}
    /\ \A e \in PodLogsEntries :
        payload_truthy(e.value.logs) /\ text_truthy(e.value.logs.content)
    /\ (req.op \in {"get_pods", "get_pod_logs"} /\ Complete(req))
        => /\ calls[1].op = "cache_get"
           /\ calls[1].out = "hit" => Len(calls) = 1
           /\ calls[Len(calls)].op = "cache_set"
                => \E e \in cache :
                    /\ e.key = KeyOf(req) /\ e.written = clock
                    /\ e.value # NoValue

\* a pod list written by one request and found fresh by the next
C40_Witness ==
    /\ req.op = "get_pods"
    /\ nreq = 2
    /\ calls = <<Call("cache_get", <<KeyOf(req)>>, "hit")>>
    /\ \E e \in PodListEntries : e.key = KeyOf(req) /\ e.value.pods = resp.pods
    /\ resp.pods # {}


----------------------------------------------------------------------------
(* Overlapping requests for one key.                                       *)

\* the thread resolved its pod logs by generation and sent them to the store
GeneratedAndSent(t) ==
    /\ threads.th[t].req.op = "get_pod_logs"
    /\ \E i \in 1..Len(threads.th[t].calls) : threads.th[t].calls[i].op = "auto_generate"
    /\ \E i \in 1..Len(threads.th[t].calls) : threads.th[t].calls[i].op = "bulk"

\* C37: nothing makes overlapping requests for one key wait for each other:
\* a request that misses the cache goes on to the tiers whatever the other
\* request is doing, a pod-logs request that finds nothing in the store
\* auto-generates and sends a bulk request of its own, and every cache.set
\* leaves the payload of its own request under the key, so the cache holds
\* the payload of whichever request wrote last.
C37_NoSingleFlight ==
    [][\A t \in Threads :
        LET me  == threads.th[t]
            me2 == threads'.th[t]
        IN  /\ (me.pc = "get" /\ me2.pc # "get")
                => IF cached_truthy(me.req, cache, clock)
                   THEN me2.pc = "done" /\ me2.entry = NoEntry
                   ELSE me2.pc = "resolve"
            /\ (me.pc = "resolve" /\ me2.pc = "resolved")
                => /\ me2.entry.key = cache_key_of(me.req)
                   /\ me2.resp.status = 200
                   /\ (me.req.op = "get_pod_logs" /\ me2.resp.logs.source = "auto-generated")
                        => /\ \E i \in 1..Len(me2.calls) : me2.calls[i].op = "auto_generate"
                           /\ \E i \in 1..Len(me2.calls) : me2.calls[i].op = "bulk"
            /\ (me.pc = "set" /\ me2.pc = "done")
                => {e \in cache' : e.key = me.entry.key} = {me.entry}]_vars

\* two requests for the pod logs of one filter both missed, both generated
\* and both sent a bulk request; the cache holds one payload for the key
C37_Witness ==
    /\ HasSet(1) /\ HasSet(2)
    /\ threads.th[1].req = threads.th[2].req
    /\ GeneratedAndSent(1) /\ GeneratedAndSent(2)
    /\ Cardinality({e \in cache : e.key = threads.th[1].entry.key}) = 1


----------------------------------------------------------------------------
(* Shape of the auto-generated pod logs.                                   *)

\* the lines of the generated text
GeneratedLines == fn.result.lines

\* the three blocks by the levels of their lines
ErrorBlock == <<"INFO", "WARN", "ERROR", "ERROR", "FATAL">>

WarnBlock == <<"INFO", "WARN", "WARN", "WARN">>

DefaultBlock == <<"INFO", "INFO", "INFO", "INFO">>

\* the levels of the lines after the startup sequence
BlockLevels == [i \in 1..(Len(GeneratedLines) - 4) |-> GeneratedLines[i + 4].level]

Severity(level) ==
    CASE level = "INFO" -> 1 [] level = "WARN" -> 2 [] level = "ERROR" -> 3
      [] level = "FATAL" -> 4

\* C34: the auto-generated logs of every filter and pod name begin with the
\* four INFO startup lines naming the pod, the application, the cluster and
\* the bundle, followed by exactly one of the three blocks, chosen by the
\* pod name; the timestamps increase strictly from line to line; in the
\* error block the severity never decreases; there are 8 or 9 lines; the
\* default block has INFO lines only.
C34_GeneratedLogsShape ==
    AutoGenerated =>
        /\ Len(GeneratedLines) \in {8, 9}
        /\ \A i \in 1..4 : GeneratedLines[i].level = "INFO"
        /\ <<GeneratedLines[1].value, GeneratedLines[2].value,
             GeneratedLines[3].value, GeneratedLines[4].value>>
                = <<fn.args[4], fn.args[1], fn.args[2], fn.args[3]>>
        /\ <<GeneratedLines[1].text, GeneratedLines[2].text,
             GeneratedLines[3].text, GeneratedLines[4].text>>
                = <<"Starting pod ", "Application: ", "Cluster: ", "Bundle: ">>
        /\ BlockLevels =
                IF PodNameHas(<<"e","r","r","o","r">>) THEN ErrorBlock
                ELSE IF PodNameHas(<<"w","a","r","n">>) THEN WarnBlock
                ELSE DefaultBlock
        /\ \A i \in 1..(Len(GeneratedLines) - 1) :
                GeneratedLines[i].time < GeneratedLines[i + 1].time
        /\ BlockLevels = ErrorBlock =>
                \A i \in 1..(Len(BlockLevels) - 1) :
                    Severity(BlockLevels[i]) <= Severity(BlockLevels[i + 1])
        /\ fn.result.levels = [i \in 1..Len(GeneratedLines) |-> GeneratedLines[i].level]
        /\ GeneratedLines[1].time = fn.now - 5400

\* the nine lines of a pod whose name has both 'warn' and 'error'
C34_Witness ==
    /\ AutoGenerated
    /\ PodNameHas(<<"w","a","r","n">>) /\ PodNameHas(<<"e","r","r","o","r">>)
    /\ Len(GeneratedLines) = 9
    /\ GeneratedLines[9].level = "FATAL"


----------------------------------------------------------------------------
(* The local root cause analyzer on its own: one call on a text of up to   *)
(* MaxLines lines.                                                         *)

RcaLines ==
    {ERROR \o <<" ","a">>,
     <<" ">> \o ERROR \o <<" ","t","i","m","e","o","u","t">>,
     WARN \o <<" ","M","e","m","o","r","y">>,
     WARN \o <<" ","b">>,
     INFO \o <<" ","c","o","n","n","e","c","t","i","o","n">>}

MaxLines == 4

\* the texts of n lines, joined by line breaks
RECURSIVE RcaTextsOf(_)
RcaTextsOf(n) ==
    IF n = 1 THEN RcaLines
    ELSE {t \o <<"\n">> \o l : t \in RcaTextsOf(n - 1), l \in RcaLines}

RcaTexts == {<<>>} \cup UNION {RcaTextsOf(n) : n \in 1..MaxLines}

GenerateLocalRca ==
    /\ fn.name = "idle"
    /\ \E log_text \in RcaTexts :
         fn' = FnCall("generate_local_rca", <<log_text>>, clock, <<>>,
                      generate_local_rca(log_text), <<>>)
    /\ UNCHANGED <<cache, store, clock, nreq, req, resp, calls, norm, ai, svc, files, threads>>

NextRca == GenerateLocalRca

SpecRca == InitGen /\ [][NextRca]_vars

\* the analyzer has been called
RcaDone == fn.name = "generate_local_rca"

\* the lines of the analyzed text that have the word, in their order
RcaLinesWith(word) == lines_with(word, split_lines(fn.args[1]))

\* the keywords a cause is suggested for
RcaKeywords ==
    {<<"t","i","m","e","o","u","t">>, <<"m","e","m","o","r","y">>,
     <<"c","o","n","n","e","c","t","i","o","n">>}

\* the first three of the lines, without surrounding whitespace
FirstThree(ls) == [k \in 1..(IF Len(ls) < 3 THEN Len(ls) ELSE 3) |-> strip(ls[k])]

\* C33: the local root cause analysis of a text with n ERROR lines lists the
\* first min(3, n) of them in their order and reports n - 3 more if and only
\* if n > 3; WARN lines are listed, by the same rule, only when there is no
\* ERROR line; with neither it reports normal operation; whenever the text
\* has 'timeout', 'memory' or 'connection' in any letter case together with
\* at least one ERROR or WARN line, the cause of that keyword is suggested;
\* every branch ends with a checklist.
C33_LocalRcaListsAndSuggests ==
    RcaDone =>
        LET errors   == RcaLinesWith(ERROR)
            warnings == RcaLinesWith(WARN)
            listed   == IF errors # <<>> THEN errors ELSE warnings
            body     == fn.result.body
        IN  /\ body.shown = FirstThree(listed)
            /\ body.count = Len(listed)
            /\ body.more = (IF Len(listed) > 3 THEN Len(listed) - 3 ELSE 0)
            /\ body.section = "System Operating Normally"
                    <=> (errors = <<>> /\ warnings = <<>>)
            /\ body.section = "Critical Issues Found" <=> errors # <<>>
            /\ listed # <<>> =>
                    \A w \in RcaKeywords :
                        str_in(w, str_lower(fn.args[1])) => w \in body.causes
            /\ body.checklist \in
                    {"Immediate Actions", "Preventive Actions", "Optimization Opportunities"}

\* the part of C33 about the listed lines, the counts and the checklist
C33_ListedLines ==
    RcaDone =>
        LET errors   == RcaLinesWith(ERROR)
            warnings == RcaLinesWith(WARN)
            listed   == IF errors # <<>> THEN errors ELSE warnings
            body     == fn.result.body
        IN  /\ body.shown = FirstThree(listed)
            /\ body.more = (IF Len(listed) > 3 THEN Len(listed) - 3 ELSE 0)
            /\ errors # <<>> =>
                    \A w \in RcaKeywords :
                        str_in(w, str_lower(fn.args[1])) <=> w \in body.causes
            /\ errors = <<>> => body.causes = {}


----------------------------------------------------------------------------
(* The formatter of store entries, line by line.                           *)

\* a key the entry does not have
Missing == "<missing>"

\* a timestamp: ISO 8601 with 'T', already in display form, or a text with
\* a 'T' that is no ISO date
Stamp(form, seconds) == [form |-> form, seconds |-> seconds]

\* the entry has no such key, and the empty string under the key
MissingStamp == Stamp("missing", 0)

EmptyStamp == Stamp("empty", 0)

\* dict.get(key, default) for the timestamp keys
stamp_get(value, default) == IF value = MissingStamp THEN default ELSE value

\* an entry of the store as the formatter reads it
Entry(at_timestamp, timestamp, log_level, log_message, message, pod) ==
    [at_timestamp |-> at_timestamp, timestamp |-> timestamp, log_level |-> log_level,
     log_message |-> log_message, message |-> message, pod |-> pod]

\* dict.get(key, default)
entry_get(value, default) == IF value = Missing THEN default ELSE value

\* datetime.fromisoformat(...).strftime('%Y-%m-%d %H:%M:%S') for a
\* timestamp with a 'T'; a timestamp that does not parse stays as it is
display_timestamp(timestamp) ==
    IF timestamp.form = "iso" THEN Stamp("display", timestamp.seconds) ELSE timestamp

\* a formatter that writes a line for every entry
format_elasticsearch_log_lines_unfiltered(logs) ==
    [total |-> Len(logs),
     source |-> IF logs = <<>> THEN "" ELSE "elasticsearch",
     body |-> [k \in 1..Len(logs) |->
                [timestamp |-> display_timestamp(
                                    stamp_get(logs[k].at_timestamp,
                                              stamp_get(logs[k].timestamp, EmptyStamp))),
                 level     |-> entry_get(logs[k].log_level, "INFO"),
                 message   |-> entry_get(logs[k].log_message,
                                         entry_get(logs[k].message, "")),
                 pod       |-> entry_get(logs[k].pod, "")]]]

\* the header ('# Source: elasticsearch', '# Total logs: <len(logs)>') and
\* the lines '[<timestamp>] <level>: <message>[ [pod: <pod>]]' of the
\* entries whose timestamp, level and message are all truthy
format_elasticsearch_log_lines(logs) ==
    LET line(log) ==
            [timestamp |-> display_timestamp(
                                stamp_get(log.at_timestamp,
                                          stamp_get(log.timestamp, EmptyStamp))),
             level     |-> entry_get(log.log_level, "INFO"),
             message   |-> entry_get(log.log_message, entry_get(log.message, "")),
             pod       |-> entry_get(log.pod, "")]
        printed(log) ==
            /\ line(log).timestamp # EmptyStamp
            /\ line(log).level # ""
            /\ line(log).message # ""
    IN  IF logs = <<>>
        THEN [total |-> 0, source |-> "", body |-> <<>>]
        ELSE [total  |-> Len(logs),
              source |-> "elasticsearch",
              body   |-> LET kept == SelectSeq(logs, printed)
                         IN  [k \in 1..Len(kept) |-> line(kept[k])]]

\* entries with every field, with the second-choice keys only, without a
\* level, with an empty message, with an empty '@timestamp' beside a
\* 'timestamp', and without any timestamp
FormatEntries ==
    {Entry(Stamp("iso", 40), Stamp("iso", 40), "ERROR", "failed", "failed", "web-1"),
     Entry(MissingStamp, Stamp("display", 30), Missing, Missing, "started", Missing),
     Entry(Stamp("other", 20), MissingStamp, "WARN", "slow", Missing, ""),
     Entry(Stamp("iso", 10), MissingStamp, "INFO", "", "ignored", "web-1"),
     Entry(EmptyStamp, Stamp("iso", 10), "INFO", "kept", Missing, Missing),
     Entry(MissingStamp, MissingStamp, "", "lost", Missing, Missing)}

MaxEntries == 3

RECURSIVE EntryLists(_)
EntryLists(n) ==
    IF n = 0 THEN {<<>>}
    ELSE EntryLists(n - 1)
            \cup {l \o <<e>> : l \in {m \in EntryLists(n - 1) : Len(m) = n - 1},
                               e \in FormatEntries}

FormatElasticsearchLogs ==
    /\ fn.name = "idle"
    /\ \E logs \in EntryLists(MaxEntries) :
         fn' = FnCall("format_elasticsearch_logs", <<logs>>, clock, <<>>,
                      format_elasticsearch_log_lines(logs), <<>>)
    /\ UNCHANGED <<cache, store, clock, nreq, req, resp, calls, norm, ai, svc, files, threads>>

NextFormat == FormatElasticsearchLogs

SpecFormat == InitGen /\ [][NextFormat]_vars

\* the formatter has been called on a list that is not empty
Formatted == fn.name = "format_elasticsearch_logs" /\ fn.args[1] # <<>>

\* the entry has a timestamp, a level and a message under the first-choice
\* or the second-choice key
HasAllThree(log) ==
    /\ \/ log.at_timestamp \notin {MissingStamp, EmptyStamp}
       \/ log.timestamp \notin {MissingStamp, EmptyStamp}
    /\ log.log_level # ""
    /\ \/ log.log_message \notin {Missing, ""}
       \/ log.message \notin {Missing, ""}

\* C35: for every non-empty list of store entries the formatted text has
\* the header line '# Source: elasticsearch' and one body line per entry,
\* in the order of the list, and the number of body lines equals the
\* 'Total logs' count of the header.
C35_BodyMatchesTotal ==
    Formatted =>
        /\ fn.result.source = "elasticsearch"
        /\ fn.result.total = Len(fn.args[1])
        /\ Len(fn.result.body) = fn.result.total

\* the body has as many lines as there are entries with a timestamp, a
\* level and a message under any of their keys; it does not hold for an
\* entry whose first-choice key is present and empty
C35_LinePerCompleteEntry ==
    Formatted => Len(fn.result.body) = Len(SelectSeq(fn.args[1], HasAllThree))

\* the body is a subsequence of the entries in their order, and the count
\* of the header is the length of the list
C35_BodyInOrder ==
    Formatted =>
        /\ fn.result.source = "elasticsearch"
        /\ fn.result.total = Len(fn.args[1])
        /\ Len(fn.result.body) <= fn.result.total
        /\ \A k \in 1..Len(fn.result.body) :
                /\ fn.result.body[k].timestamp # EmptyStamp
                /\ fn.result.body[k].level # ""
                /\ fn.result.body[k].message # ""


----------------------------------------------------------------------------
(* The search endpoint: POST search_logs_elasticsearch.                    *)

\* the POST parameters of a search; a text parameter that is absent is '',
\* a time or a number that is absent is Absent
SearchPost(search_text, application, cluster, bundle, pod, log_level, start_time, end_time, page, size) ==
    [search_text |-> search_text, application |-> application, cluster |-> cluster,
     bundle |-> bundle, pod |-> pod, log_level |-> log_level,
     start_time |-> start_time, end_time |-> end_time, page |-> page, size |-> size]

\* the entry of query_params for a text parameter: the stripped value if it
\* is not empty, else no key
param(value) == IF truthy(strip(value)) THEN strip(value) ELSE None

\* query_params as the endpoint builds it: page and size always, every
\* other key only for a parameter that is not empty
endpoint_query_params(post) ==
    [application |-> param(post.application), cluster |-> param(post.cluster),
     bundle |-> param(post.bundle), pod |-> param(post.pod),
     log_level |-> param(post.log_level), search_text |-> param(post.search_text),
     start_time |-> post.start_time, end_time |-> post.end_time,
     page |-> IF post.page = Absent THEN 1 ELSE post.page,
     size |-> IF post.size = Absent THEN 50 ELSE post.size]

\* an entry as the endpoint hands it to the frontend
formatted_log(log) ==
    [id |-> log.id, timestamp |-> log.ts, application |-> log.application,
     cluster |-> log.cluster, bundle |-> log.bundle, pod |-> log.pod,
     log_level |-> log.log_level, message |-> log.log_message]

\* the JSON answer of the endpoint
SearchResponse(success, error, logs, total, page, pages, size) ==
    [success |-> success, error |-> error, logs |-> logs, total |-> total,
     page |-> page, pages |-> pages, size |-> size]

\* every way the endpoint can answer, with the requests sent to the store
search_logs_elasticsearch(st, post) ==
    LET query_params == endpoint_query_params(post)
    IN  {[resp |->
            IF r.result.error # ""
            THEN SearchResponse(FALSE, r.result.error, <<>>, 0, 0, 0, 0)
            ELSE SearchResponse(TRUE, "",
                                [k \in 1..Len(r.result.logs) |->
                                    formatted_log(r.result.logs[k])],
                                r.result.total, r.result.page, 1, r.result.size),
          sent |-> r.sent]
            : r \in search_logs_result(st, query_params)}

\* times around the timestamps 10, 20, 30, 40 of the stored entries
StartTimes == {Absent, 15, 25}

EndTimes == {Absent, 25, 35}

SearchPosts ==
    {SearchPost(<<>>, a, <<>>, <<>>, <<>>, l, s, e, Absent, size) :
        a \in {<<>>, FOBPM, <<" ">> \o FOBPM}, l \in {<<>>, ERROR},
        s \in StartTimes, e \in EndTimes, size \in {Absent} \cup 1..MaxSize}

SearchLogsElasticsearch ==
    /\ svc.call.op = "none"
    /\ \E post \in SearchPosts :
         \E r \in search_logs_elasticsearch(store, post) :
            svc' = [call   |-> AdapterCall("search_logs_elasticsearch", post),
                   result |-> r.resp,
                   sent   |-> r.sent]
    /\ UNCHANGED <<cache, store, clock, nreq, req, resp, calls, norm, ai, files, fn, threads>>

NextEndpoint == SearchLogsElasticsearch

SpecEndpoint == InitStore /\ [][NextEndpoint]_vars

\* the endpoint has answered a search with success
SearchAnswered == svc.call.op = "search_logs_elasticsearch" /\ svc.result.success

\* C39: a start_time or an end_time given to the search endpoint restricts
\* the result: every entry returned for a request with a time range has
\* its timestamp inside the range.
C39_TimeRangeRestricts ==
    SearchAnswered =>
        \A k \in 1..Len(svc.result.logs) :
            /\ svc.call.arg.start_time # Absent
                => svc.call.arg.start_time <= svc.result.logs[k].timestamp
            /\ svc.call.arg.end_time # Absent
                => svc.result.logs[k].timestamp <= svc.call.arg.end_time

\* the other filters of the endpoint do restrict the result, and the time
\* range changes nothing in the query that is sent
C39_OtherFiltersRestrict ==
    SearchAnswered =>
        /\ \A k \in 1..Len(svc.result.logs) :
            /\ truthy(strip(svc.call.arg.application))
                => svc.result.logs[k].application = strip(svc.call.arg.application)
            /\ truthy(strip(svc.call.arg.log_level))
                => svc.result.logs[k].log_level = strip(svc.call.arg.log_level)
        /\ svc.sent[Len(svc.sent)].arg =
                search_query([endpoint_query_params(svc.call.arg)
                                EXCEPT !.start_time = Absent, !.end_time = Absent])

====
